---- MODULE Spec2Model ----
(***************************************************************************)
(* Model of the swap-history PnL route, src/app/api/swaps/route.js (POST). *)
(*                                                                         *)
(* Numbers.  JavaScript numbers are IEEE-754 binary floating point.  The   *)
(* model keeps the rounding: a number is an integer count of the smallest  *)
(* representable step (Unit steps make 1.0), a result keeps at most        *)
(* SignificandBits significant bits and is rounded to nearest, ties to     *)
(* even, exactly as the hardware does with 53 bits.  Magnitudes stay far   *)
(* below the overflow threshold, so Infinity and NaN never arise from      *)
(* arithmetic; a non-numeric upstream field is the value NotANumber.       *)
(*                                                                         *)
(* Strings.  A string is the sequence of its UTF-16 code units; the        *)
(* JavaScript null is the value JsNull.                                    *)
(***************************************************************************)
EXTENDS Integers, Sequences, FiniteSets, TLC

(***************************************************************************)
(* Bounds of the model.                                                    *)
(***************************************************************************)
SignificandBits == 7      \* significant bits kept by every arithmetic result
FractionBits == 3         \* 1.0 is 2^FractionBits smallest steps
MaxEvents == 3            \* swap records fetched in one run, over all chains
PageLimit == 2            \* stands for the 1000 of the pagination safety stop
MaxPriceItems == 2        \* entries in one price response
PeerEvents == 2           \* swap records fetched by a second, concurrent run

RECURSIVE Pow2(_)
Pow2(k) == IF k <= 0 THEN 1 ELSE 2 * Pow2(k - 1)

Unit == Pow2(FractionBits)

\* n whole units as a model number
Num(n) == n * Unit

RECURSIVE BitLen(_)
BitLen(n) == IF n <= 0 THEN 0 ELSE 1 + BitLen(n \div 2)

Max(a, b) == IF a >= b THEN a ELSE b
Min(a, b) == IF a <= b THEN a ELSE b
Abs(a) == IF a < 0 THEN -a ELSE a

\* The representable number nearest to n/d (n >= 0, d > 0), ties to even.
RoundMagnitude(n, d) ==
    LET q    == n \div d
        step == Pow2(BitLen(q) - SignificandBits)
        lo   == (q \div step) * step
        twice == 2 * (n - lo * d)
    IN  IF twice < step * d THEN lo
        ELSE IF twice > step * d THEN lo + step
        ELSE IF (lo \div step) % 2 = 0 THEN lo ELSE lo + step

RoundNearestEven(n, d) == IF n >= 0 THEN RoundMagnitude(n, d) ELSE -RoundMagnitude(-n, d)

\* a + b, a - b, a * b, a / b of JavaScript
FAdd(a, b) == RoundNearestEven(a + b, 1)
FSub(a, b) == RoundNearestEven(a - b, 1)
FMul(a, b) == RoundNearestEven(a * b, Unit)
FDiv(a, b) == RoundNearestEven(a * Unit, b)

\* what the literals of the inputs denote: a value that a number can hold
Representable(a) == RoundNearestEven(a, 1) = a

(***************************************************************************)
(* JavaScript values.                                                      *)
(***************************************************************************)
JsNull == <<-1>>
IsString(v) == v # JsNull

\* A numeric JSON field of the provider: a finite number, or anything else
\* (missing, a non-numeric string, NaN, Infinity), which Number() does not
\* turn into a finite number.
RawNumber(n) == [kind |-> "number", val |-> n]
RawOther == [kind |-> "other", val |-> 0]
NullNumber == [kind |-> "null", val |-> 0]
\* Number(v) of a simplified field: Number(null) is 0
ToNumber(v) == IF v.kind = "number" THEN v.val ELSE 0

\* A JavaScript object with string keys: its entries in insertion order.
\* (No key of the model is an integer-like string, which would be listed first.)
EmptyObject == <<>>
HasKey(obj, k) == \E i \in 1..Len(obj) : obj[i].k = k
IndexOfKey(obj, k) == CHOOSE i \in 1..Len(obj) : obj[i].k = k
Lookup(obj, k) == obj[IndexOfKey(obj, k)].v
\* obj[k] || 0
GetOrZero(obj, k) == IF HasKey(obj, k) THEN Lookup(obj, k) ELSE 0
\* obj[k] = v
Put(obj, k, v) ==
    IF HasKey(obj, k)
    THEN [obj EXCEPT ![IndexOfKey(obj, k)] = [k |-> k, v |-> v]]
    ELSE Append(obj, [k |-> k, v |-> v])
Keys(obj) == [i \in 1..Len(obj) |-> obj[i].k]
KeySet(obj) == {obj[i].k : i \in 1..Len(obj)}

(***************************************************************************)
(* Strings of the inputs, as code units.                                   *)
(***************************************************************************)
Slash == 47
UpperW == 87
LowerW == 119
WhiteSpace == {9, 10, 11, 12, 13, 32, 160}

STR_buy == <<98, 117, 121>>
STR_sell == <<115, 101, 108, 108>>
STR_BUY == <<66, 85, 89>>
STR_transfer == <<116, 114, 97, 110, 115, 102, 101, 114>>
STR_Sell == <<83, 101, 108, 108>>
STR_WETH_USDC == <<87, 69, 84, 72, 47, 85, 83, 68, 67>>
STR_ETH_USDT == <<69, 84, 72, 47, 85, 83, 68, 84>>
STR_WBTC_USDC == <<87, 66, 84, 67, 47, 85, 83, 68, 67>>
\* "wBTC/USDC", "W/USDC", "/USDC", " WETH /USDC", "ETH", "WW/USDC"
STR_wBTC_USDC == <<119, 66, 84, 67, 47, 85, 83, 68, 67>>
STR_W_USDC == <<87, 47, 85, 83, 68, 67>>
STR_NoBase_USDC == <<47, 85, 83, 68, 67>>
STR_Padded_WETH_USDC == <<32, 87, 69, 84, 72, 32, 47, 85, 83, 68, 67>>
STR_WW_USDC == <<87, 87, 47, 85, 83, 68, 67>>
STR_W == <<87>>
\* "LINK/USDC"
STR_LINK_USDC == <<76, 73, 78, 75, 47, 85, 83, 68, 67>>
STR_LINK == <<76, 73, 78, 75>>
STR_ETH == <<69, 84, 72>>
STR_BTC == <<66, 84, 67>>
STR_0xAAA == <<48, 120, 65, 65, 65>>
STR_0xaaa == <<48, 120, 97, 97, 97>>
STR_0xBBB == <<48, 120, 66, 66, 66>>
STR_0xCCC == <<48, 120, 67, 67, 67>>
\* "2024-01-01T00:00:00.000Z", "2024-01-01T00:00:00Z", "2024-06-30T12:00:00.000Z"
TS_JAN == <<50,48,50,52,45,48,49,45,48,49,84,48,48,58,48,48,58,48,48,46,48,48,48,90>>
TS_JAN_SHORT == <<50,48,50,52,45,48,49,45,48,49,84,48,48,58,48,48,58,48,48,90>>
TS_JUN == <<50,48,50,52,45,48,54,45,51,48,84,49,50,58,48,48,58,48,48,46,48,48,48,90>>

\* String.prototype.toLowerCase on the ASCII letters
LowerCode(c) == IF c >= 65 /\ c <= 90 THEN c + 32 ELSE c
ToLowerCase(s) == [i \in 1..Len(s) |-> LowerCode(s[i])]

\* String.prototype.trim
RECURSIVE TrimStart(_)
TrimStart(s) == IF s # <<>> /\ Head(s) \in WhiteSpace THEN TrimStart(Tail(s)) ELSE s
RECURSIVE TrimEnd(_)
TrimEnd(s) ==
    IF s # <<>> /\ s[Len(s)] \in WhiteSpace THEN TrimEnd(SubSeq(s, 1, Len(s) - 1)) ELSE s
Trim(s) == TrimEnd(TrimStart(s))

\* pairLabel.split("/")[0]
RECURSIVE FirstSegment(_)
FirstSegment(s) ==
    IF s = <<>> \/ Head(s) = Slash THEN <<>> ELSE <<Head(s)>> \o FirstSegment(Tail(s))

\* fault: the length test is missing, a base "W" loses its only character
getBaseTokenSymbol_NoLengthTest(pairLabel) ==
    IF ~IsString(pairLabel) \/ Len(pairLabel) = 0 THEN JsNull
    ELSE LET baseRaw == Trim(FirstSegment(pairLabel))
         IN  IF baseRaw = <<>> THEN JsNull
             ELSE IF baseRaw[1] \in {UpperW, LowerW} THEN Tail(baseRaw)
             ELSE baseRaw
getBaseTokenSymbol(pairLabel) ==
    IF ~IsString(pairLabel) \/ Len(pairLabel) = 0 THEN JsNull
    ELSE LET baseRaw == Trim(FirstSegment(pairLabel))
         IN  IF baseRaw = <<>> THEN JsNull
             ELSE IF Len(baseRaw) > 1 /\ baseRaw[1] \in {UpperW, LowerW} THEN Tail(baseRaw)
             ELSE baseRaw

(***************************************************************************)
(* Fetched records (lines 33-55, 155-167).                                 *)
(***************************************************************************)
\* Number.isFinite(Number(x)) ? Number(x) : null
SimplifyNumber(x) == IF x.kind = "number" THEN x ELSE NullNumber

simplifySwapItem(rawItem) ==
    [transactionType |-> rawItem.transactionType,
     blockTimestamp  |-> rawItem.blockTimestamp,
     pairLabel       |-> rawItem.pairLabel,
     boughtAmount    |-> SimplifyNumber(rawItem.bought.amount),
     boughtUsdAmount |-> SimplifyNumber(rawItem.bought.usdAmount),
     soldAmount      |-> SimplifyNumber(rawItem.sold.amount),
     soldUsdAmount   |-> SimplifyNumber(rawItem.sold.usdAmount)]

\* { ...base, chain, boughtAddress, soldAddress }
SimplifiedItem(rawItem, chain) ==
    LET base == simplifySwapItem(rawItem)
    IN  [transactionType |-> base.transactionType,
         blockTimestamp  |-> base.blockTimestamp,
         pairLabel       |-> base.pairLabel,
         boughtAmount    |-> base.boughtAmount,
         boughtUsdAmount |-> base.boughtUsdAmount,
         soldAmount      |-> base.soldAmount,
         soldUsdAmount   |-> base.soldUsdAmount,
         chain           |-> chain,
         boughtAddress   |-> rawItem.bought.address,
         soldAddress     |-> rawItem.sold.address]

(***************************************************************************)
(* Flatten and sort by blockTimestamp (lines 176-184).                     *)
(***************************************************************************)
\* Primary collation weight of a code unit under String.prototype.localeCompare
\* (root collation: punctuation, then digits, then letters; the timestamps
\* of the model differ in no letter case).
CollationRank(c) ==
    CASE c = 45 -> 1
      [] c = 58 -> 2
      [] c = 46 -> 3
      [] c >= 48 /\ c <= 57 -> 10 + (c - 48)
      [] c >= 65 /\ c <= 90 -> 20 + 2 * (c - 65) + 1
      [] c >= 97 /\ c <= 122 -> 20 + 2 * (c - 97)
      [] OTHER -> 100 + c

RECURSIVE localeCompare(_, _)
localeCompare(a, b) ==
    IF a = <<>> /\ b = <<>> THEN 0
    ELSE IF a = <<>> THEN -1
    ELSE IF b = <<>> THEN 1
    ELSE IF CollationRank(Head(a)) < CollationRank(Head(b)) THEN -1
    ELSE IF CollationRank(Head(a)) > CollationRank(Head(b)) THEN 1
    ELSE localeCompare(Tail(a), Tail(b))

\* typeof a.blockTimestamp === "string" ? a.blockTimestamp : ""
SortKey(item) == IF IsString(item.blockTimestamp) THEN item.blockTimestamp ELSE <<>>

\* fault: the comparator with its operands swapped (newest first)
CompareItems_Swapped(a, b) == localeCompare(SortKey(b), SortKey(a))
CompareItems(a, b) == localeCompare(SortKey(a), SortKey(b))

\* Array.prototype.sort is stable: x, later in the input than all of sorted,
\* goes behind every element that does not compare greater than it.
InsertSorted(sorted, x) ==
    LET n == Cardinality({i \in 1..Len(sorted) : CompareItems(sorted[i], x) <= 0})
    IN  SubSeq(sorted, 1, n) \o <<x>> \o SubSeq(sorted, n + 1, Len(sorted))

RECURSIVE SortItems(_)
SortItems(items) ==
    IF items = <<>> THEN <<>>
    ELSE InsertSorted(SortItems(SubSeq(items, 1, Len(items) - 1)), items[Len(items)])

\* chains.flatMap((c) => resultsByChain[c]?.items || [])
RECURSIVE FlatMapChains(_, _)
FlatMapChains(chainList, results) ==
    IF chainList = <<>> THEN <<>>
    ELSE (IF HasKey(results, Head(chainList)) THEN Lookup(results, Head(chainList)) ELSE <<>>)
         \o FlatMapChains(Tail(chainList), results)

FlattenAndSort(chainList, results) == SortItems(FlatMapChains(chainList, results))

(***************************************************************************)
(* The position ledger (lines 186-246).  A ledger value L holds the        *)
(* accumulators of the replay loop.                                        *)
(***************************************************************************)
EmptyLedger ==
    [holdings                |-> EmptyObject,
     holdingsByTokenKey      |-> EmptyObject,
     tokenKeyMeta            |-> EmptyObject,
     positionCostUsdBySymbol |-> EmptyObject,
     realizedPnlUsd          |-> 0,
     pnl                     |-> 0,
     minPnlDuringCalc        |-> 0]

\* fault: the type is compared as it came
TypeOf_AsGiven(item) ==
    IF IsString(item.transactionType) THEN item.transactionType ELSE <<>>
\* String(item?.transactionType || "").toLowerCase()
TypeOf(item) ==
    IF IsString(item.transactionType) THEN ToLowerCase(item.transactionType) ELSE <<>>

\* Math.abs(Number(field))
AbsNumber(field) == Abs(ToNumber(field))

\* fault: the quantity is not validated
InvalidAmounts_UsdOnly(quantity, usdUsed) == usdUsed <= 0
\* fault: only one of the two amounts is validated
InvalidAmounts_QuantityOnly(quantity, usdUsed) == quantity <= 0
\* !Number.isFinite(quantity) || quantity <= 0 || !Number.isFinite(usdUsed) || usdUsed <= 0
InvalidAmounts(quantity, usdUsed) == quantity <= 0 \/ usdUsed <= 0

\* `${chain}:${address.toLowerCase()}`
TokenKey(chain, address) == <<chain, ToLowerCase(address)>>

\* chain && address
HasChainAndAddress(chain, address) ==
    chain # "" /\ IsString(address) /\ address # <<>>

\* fault: the comparison inverted, tracking the highest value
TrackMinimum_Inverted(pnl, minPnl) == IF pnl > minPnl THEN pnl ELSE minPnl
\* fault: the running value overwrites the extreme
TrackMinimum_Latest(pnl, minPnl) == pnl
\* if (pnl < minPnlDuringCalc) minPnlDuringCalc = pnl
TrackMinimum(pnl, minPnl) == IF pnl < minPnl THEN pnl ELSE minPnl

\* if (!tokenKeyMeta[key]) tokenKeyMeta[key] = { symbol, chain, address }
RecordMeta(meta, key, symbol, chain, address) ==
    IF HasKey(meta, key) THEN meta
    ELSE Put(meta, key, [symbol |-> symbol, chain |-> chain, address |-> address])

\* fault: = in place of +=, the last buy replaces the holding
BuyHoldings_Overwrites(held, quantity) == quantity
BuyHoldings(held, quantity) == FAdd(held, quantity)
\* fault: = in place of +=
BuyCostBasis_Overwrites(cost, usdUsed) == usdUsed
BuyCostBasis(cost, usdUsed) == FAdd(cost, usdUsed)
BuyCashFlow(pnl, usdUsed) == FSub(pnl, usdUsed)
BuyTokenAmount(amount, quantity) == FAdd(amount, quantity)

ApplyBuy(L, item, symbol) ==
    LET quantity == AbsNumber(item.boughtAmount)
        usdUsed  == AbsNumber(item.boughtUsdAmount)
        pnl1     == BuyCashFlow(L.pnl, usdUsed)
        chain    == item.chain
        address  == item.boughtAddress
        key      == TokenKey(chain, address)
    IN  IF InvalidAmounts(quantity, usdUsed) THEN L
        ELSE [L EXCEPT
                !.holdings = Put(@, symbol, BuyHoldings(GetOrZero(@, symbol), quantity)),
                !.pnl = pnl1,
                !.minPnlDuringCalc = TrackMinimum(pnl1, @),
                !.positionCostUsdBySymbol =
                    Put(@, symbol, BuyCostBasis(GetOrZero(@, symbol), usdUsed)),
                !.holdingsByTokenKey =
                    IF HasChainAndAddress(chain, address)
                    THEN Put(@, key, BuyTokenAmount(GetOrZero(@, key), quantity))
                    ELSE @,
                !.tokenKeyMeta =
                    IF HasChainAndAddress(chain, address)
                    THEN RecordMeta(@, key, symbol, chain, address)
                    ELSE @]

\* fault: the guard never fires
NothingToSell_Never(available) == FALSE
\* if (available <= 0) continue
NothingToSell(available) == available <= 0
\* Math.min(available, quantity)
SellQuantity(available, quantity) == Min(available, quantity)
\* usdUsed * (sellQuantity / quantity)
RealizedUsd(usdUsed, sellQuantity, quantity) == FMul(usdUsed, FDiv(sellQuantity, quantity))
\* fault: the whole basis is realized on every sell
RealizedCostUsd_WholeBasis(posCostBefore, available, sellQuantity) == posCostBefore
\* avgCostPerUnit * sellQuantity, avgCostPerUnit = posCostBefore / available
RealizedCostUsd(posCostBefore, available, sellQuantity) ==
    FMul(FDiv(posCostBefore, available), sellQuantity)
\* Math.max(0, posCostBefore - realizedCostUsd)
ReducedCostBasis(posCostBefore, realizedCostUsd) == Max(0, FSub(posCostBefore, realizedCostUsd))
\* available > 0 && sellQuantity > 0 && posCostBefore > 0
RealizesPnl(available, sellQuantity, posCostBefore) ==
    available > 0 /\ sellQuantity > 0 /\ posCostBefore > 0
\* fault: neither the clamp nor the floor
SellTokenAmount_Unclamped(current, sellQuantity) == FSub(current, sellQuantity)
\* Math.max(0, current - Math.min(current, sellQuantity))
SellTokenAmount(current, sellQuantity) == Max(0, FSub(current, Min(current, sellQuantity)))

ApplySell(L, item, symbol) ==
    LET quantity  == AbsNumber(item.soldAmount)
        usdUsed   == AbsNumber(item.soldUsdAmount)
        available == GetOrZero(L.holdings, symbol)
        sellQuantity    == SellQuantity(available, quantity)
        realizedUsd     == RealizedUsd(usdUsed, sellQuantity, quantity)
        posCostBefore   == GetOrZero(L.positionCostUsdBySymbol, symbol)
        realizedCostUsd == RealizedCostUsd(posCostBefore, available, sellQuantity)
        realizes  == RealizesPnl(available, sellQuantity, posCostBefore)
        pnl1      == FAdd(L.pnl, realizedUsd)
        chain     == item.chain
        address   == item.soldAddress
        key       == TokenKey(chain, address)
    IN  IF InvalidAmounts(quantity, usdUsed) THEN L
        ELSE IF NothingToSell(available) THEN L
        ELSE [L EXCEPT
                !.realizedPnlUsd =
                    IF realizes THEN FAdd(@, FSub(realizedUsd, realizedCostUsd)) ELSE @,
                !.positionCostUsdBySymbol =
                    IF realizes
                    THEN Put(@, symbol, ReducedCostBasis(posCostBefore, realizedCostUsd))
                    ELSE @,
                !.holdings = Put(@, symbol, FSub(available, sellQuantity)),
                !.pnl = pnl1,
                !.minPnlDuringCalc = TrackMinimum(pnl1, @),
                !.holdingsByTokenKey =
                    IF HasChainAndAddress(chain, address)
                    THEN Put(@, key, SellTokenAmount(GetOrZero(@, key), sellQuantity))
                    ELSE @,
                !.tokenKeyMeta =
                    IF HasChainAndAddress(chain, address)
                    THEN RecordMeta(@, key, symbol, chain, address)
                    ELSE @]

\* one iteration of the replay loop
ReplayItem(L, item) ==
    LET type   == TypeOf(item)
        symbol == getBaseTokenSymbol(item.pairLabel)
    IN  IF symbol = JsNull \/ symbol = <<>> THEN L
        ELSE IF type = STR_buy THEN ApplyBuy(L, item, symbol)
        ELSE IF type = STR_sell THEN ApplySell(L, item, symbol)
        ELSE L

(***************************************************************************)
(* Canonical asset resolver and grouping (lines 248-270).                  *)
(***************************************************************************)
\* fault: >= in place of >, the last of equal amounts wins
Replaces_OrEqual(chosen, symbol, amount) ==
    ~HasKey(chosen, symbol) \/ amount >= Lookup(chosen, symbol).amount
\* !current || amount > current.amount
Replaces(chosen, symbol, amount) ==
    ~HasKey(chosen, symbol) \/ amount > Lookup(chosen, symbol).amount

\* fault: the per-symbol check is missing
SymbolNotHeld_Skipped(held, symbol) == FALSE
\* !Number.isFinite(holdings[symbol]) || holdings[symbol] <= 0
SymbolNotHeld(held, symbol) == ~HasKey(held, symbol) \/ Lookup(held, symbol) <= 0

\* the body of the loop over Object.entries(holdingsByTokenKey)
ChooseStep(chosen, entry, meta, held) ==
    LET amount == entry.v
        symbol == Lookup(meta, entry.k).symbol
    IN  IF amount <= 0 THEN chosen
        ELSE IF ~HasKey(meta, entry.k) THEN chosen
        ELSE IF SymbolNotHeld(held, symbol) THEN chosen
        ELSE IF Replaces(chosen, symbol, amount)
             THEN Put(chosen, symbol,
                      [chain   |-> Lookup(meta, entry.k).chain,
                       address |-> Lookup(meta, entry.k).address,
                       amount  |-> amount])
             ELSE chosen

RECURSIVE ChooseFrom(_, _, _, _)
ChooseFrom(entries, chosen, meta, held) ==
    IF entries = <<>> THEN chosen
    ELSE ChooseFrom(Tail(entries), ChooseStep(chosen, Head(entries), meta, held), meta, held)

ChosenPerSymbol(byKey, meta, held) == ChooseFrom(byKey, EmptyObject, meta, held)

\* fault: one group per chosen token, a chain may be listed twice
RECURSIVE GroupByChain_PerToken(_, _)
GroupByChain_PerToken(chosen, grouped) ==
    IF chosen = <<>> THEN grouped
    ELSE GroupByChain_PerToken(Tail(chosen),
                               Append(grouped, [k |-> Head(chosen).v.chain,
                                                v |-> <<Head(chosen).v.address>>]))
\* tokensByChain[sel.chain].push({ token_address: sel.address })
RECURSIVE GroupByChain(_, _)
GroupByChain(chosen, grouped) ==
    IF chosen = <<>> THEN grouped
    ELSE LET sel == Head(chosen).v
             old == IF HasKey(grouped, sel.chain) THEN Lookup(grouped, sel.chain) ELSE <<>>
         IN  IF ~HasChainAndAddress(sel.chain, sel.address) \/ sel.amount <= 0
             THEN GroupByChain(Tail(chosen), grouped)
             ELSE GroupByChain(Tail(chosen), Put(grouped, sel.chain, Append(old, sel.address)))

\* amountByChainAndAddress[`${sel.chain}:${sel.address.toLowerCase()}`] = sel.amount
RECURSIVE AmountsByKey(_, _)
AmountsByKey(chosen, amounts) ==
    IF chosen = <<>> THEN amounts
    ELSE LET sel == Head(chosen).v
         IN  IF ~HasChainAndAddress(sel.chain, sel.address) \/ sel.amount <= 0
             THEN AmountsByKey(Tail(chosen), amounts)
             ELSE AmountsByKey(Tail(chosen),
                               Put(amounts, TokenKey(sel.chain, sel.address), sel.amount))

(***************************************************************************)
(* Valuation (lines 272-322).                                              *)
(***************************************************************************)
\* fault: = in place of +=, the last value replaces the total
PriceStep_Overwrites(total, p, chain, amounts) ==
    LET address == p.tokenAddress
        key     == TokenKey(chain, address)
    IN  IF ~IsString(address) \/ address = <<>> \/ p.usdPrice.kind # "number" THEN total
        ELSE IF ~HasKey(amounts, key) \/ Lookup(amounts, key) <= 0 THEN total
        ELSE FMul(Lookup(amounts, key), p.usdPrice.val)
\* the body of the loop over priceItems
PriceStep(total, p, chain, amounts) ==
    LET address == p.tokenAddress
        key     == TokenKey(chain, address)
    IN  IF ~IsString(address) \/ address = <<>> \/ p.usdPrice.kind # "number" THEN total
        ELSE IF ~HasKey(amounts, key) \/ Lookup(amounts, key) <= 0 THEN total
        ELSE FAdd(total, FMul(Lookup(amounts, key), p.usdPrice.val))

RECURSIVE AddPrices(_, _, _, _)
AddPrices(total, priceItems, chain, amounts) ==
    IF priceItems = <<>> THEN total
    ELSE AddPrices(PriceStep(total, Head(priceItems), chain, amounts),
                   Tail(priceItems), chain, amounts)

\* fault: >= in place of >, a symbol sold down to zero stays listed
RECURSIVE FilterHoldings_KeepsZero(_)
FilterHoldings_KeepsZero(held) ==
    IF held = <<>> THEN <<>>
    ELSE (IF Head(held).v >= 0 THEN <<Head(held)>> ELSE <<>>)
         \o FilterHoldings_KeepsZero(Tail(held))
\* fault: the filter keeps every symbol
FilterHoldings_KeepsAll(held) == held
\* Filter holdings to exclude zeros
RECURSIVE FilterHoldings(_)
FilterHoldings(held) ==
    IF held = <<>> THEN <<>>
    ELSE (IF Head(held).v > 0 THEN <<Head(held)>> ELSE <<>>) \o FilterHoldings(Tail(held))

\* remainingCostUsdTotal, summed in the order of the filtered holdings
RECURSIVE RemainingCost(_, _, _)
RemainingCost(filtered, cost, total) ==
    IF filtered = <<>> THEN total
    ELSE RemainingCost(Tail(filtered), cost, FAdd(total, GetOrZero(cost, Head(filtered).k)))

\* the JSON body of the 200 response
Result(held, cost, realized, minPnl, value) ==
    LET filteredHoldings == FilterHoldings(held)
        unrealizedPnlUsd == FSub(value, RemainingCost(filteredHoldings, cost, 0))
    IN  [pnl              |-> FAdd(realized, unrealizedPnlUsd),
         realizedPnlUsd   |-> realized,
         unrealizedPnlUsd |-> unrealizedPnlUsd,
         investedUsd      |-> Abs(minPnl),
         holdings         |-> filteredHoldings,
         holdingsValueUsd |-> value]

(***************************************************************************)
(* What the data provider may return.  A run is given one of a few input   *)
(* classes (upstream), each a small set of records per chain.              *)
(***************************************************************************)
NoSide == [amount |-> RawOther, usdAmount |-> RawOther, address |-> JsNull]

Side(q, u, address) == [amount |-> q, usdAmount |-> u, address |-> address]

RawSwap(type, label, ts, bought, sold) ==
    [transactionType |-> type, pairLabel |-> label, blockTimestamp |-> ts,
     bought |-> bought, sold |-> sold]

RawBuy(label, ts, q, u, address) ==
    RawSwap(STR_buy, label, ts, Side(RawNumber(Num(q)), RawNumber(Num(u)), address), NoSide)

RawSell(label, ts, q, u, address) ==
    RawSwap(STR_sell, label, ts, NoSide, Side(RawNumber(Num(q)), RawNumber(Num(u)), address))

\* trades of one asset on one chain, and a second asset beside it
TradesPool(chain) ==
    IF chain # "eth" THEN {}
    ELSE {RawBuy(STR_WETH_USDC, TS_JAN, 10, 1000, STR_0xAAA),
          RawBuy(STR_WETH_USDC, TS_JAN, 3, 1000, STR_0xAAA),
          RawBuy(STR_WETH_USDC, TS_JAN, 4, 500, STR_0xAAA),
          RawBuy(STR_WETH_USDC, TS_JAN, 3, 4, STR_0xAAA),
          RawSell(STR_WETH_USDC, TS_JAN, 4, 500, STR_0xAAA),
          RawSell(STR_WETH_USDC, TS_JAN, 10, 1000, STR_0xAAA),
          RawSell(STR_WETH_USDC, TS_JAN, 3, 500, STR_0xAAA),
          RawBuy(STR_WBTC_USDC, TS_JAN, 4, 500, STR_0xCCC),
          RawSell(STR_WBTC_USDC, TS_JAN, 4, 1000, STR_0xCCC)}

\* one asset held through a token on each of two chains
BridgedPool(chain) ==
    IF chain = "eth"
    THEN {RawBuy(STR_WETH_USDC, TS_JAN, 3, 500, STR_0xAAA),
          RawBuy(STR_WETH_USDC, TS_JAN, 7, 500, STR_0xAAA),
          RawSell(STR_WETH_USDC, TS_JAN, 3, 500, STR_0xAAA),
          RawSell(STR_WETH_USDC, TS_JAN, 10, 1000, STR_0xAAA)}
    ELSE IF chain = "bsc"
    THEN {RawBuy(STR_ETH_USDT, TS_JAN, 3, 500, STR_0xBBB),
          RawBuy(STR_ETH_USDT, TS_JAN, 7, 500, STR_0xBBB),
          RawBuy(STR_ETH_USDT, TS_JAN, 3, 500, JsNull),
          RawSell(STR_ETH_USDT, TS_JAN, 3, 500, STR_0xBBB),
          RawSell(STR_ETH_USDT, TS_JAN, 3, 500, JsNull),
          RawBuy(STR_WBTC_USDC, TS_JAN, 4, 500, STR_0xCCC)}
    ELSE {}

\* records that differ in their timestamps
TimestampPool(chain) ==
    IF chain \notin {"eth", "bsc"} THEN {}
    ELSE {RawBuy(STR_WETH_USDC, ts, 3, 500, STR_0xAAA) :
              ts \in {TS_JAN, TS_JAN_SHORT, TS_JUN, JsNull}}
         \cup {RawSell(STR_WETH_USDC, TS_JUN, 3, 1000, STR_0xAAA)}

\* records with amounts a trade cannot have, among well-formed ones
DirtyPool(chain) ==
    IF chain # "eth" THEN {}
    ELSE {RawBuy(STR_WETH_USDC, TS_JAN, 3, 500, STR_0xAAA),
          RawBuy(STR_WETH_USDC, TS_JAN, -3, 500, STR_0xAAA),
          RawBuy(STR_WETH_USDC, TS_JAN, 3, -500, STR_0xAAA),
          RawBuy(STR_WETH_USDC, TS_JAN, 0, 500, STR_0xAAA),
          RawSwap(STR_buy, STR_WETH_USDC, TS_JAN,
                  Side(RawOther, RawNumber(Num(500)), STR_0xAAA), NoSide),
          RawSwap(STR_buy, STR_WETH_USDC, TS_JAN,
                  Side(RawNumber(Num(3)), RawOther, STR_0xAAA), NoSide),
          RawSell(STR_WETH_USDC, TS_JAN, -3, -500, STR_0xAAA),
          RawSell(STR_WETH_USDC, TS_JAN, 3, 0, STR_0xAAA),
          RawSwap(STR_sell, STR_WETH_USDC, TS_JAN, NoSide,
                  Side(RawOther, RawNumber(Num(500)), STR_0xAAA))}

\* amounts of a few smallest steps: a position whose cost basis rounds away
DustPool(chain) ==
    IF chain # "eth" THEN {}
    ELSE {RawSwap(STR_buy, STR_WETH_USDC, TS_JAN,
                  Side(RawNumber(3), RawNumber(1), STR_0xAAA), NoSide),
          RawSwap(STR_sell, STR_WETH_USDC, TS_JAN, NoSide,
                  Side(RawNumber(2), RawNumber(Num(500)), STR_0xAAA)),
          RawSell(STR_WETH_USDC, TS_JAN, 3, 500, STR_0xAAA)}

\* records that differ in their transaction type
TypesPool(chain) ==
    IF chain # "eth" THEN {}
    ELSE {RawBuy(STR_WETH_USDC, TS_JAN, 3, 500, STR_0xAAA)}
         \cup {RawSwap(type, STR_WETH_USDC, TS_JAN,
                       Side(RawNumber(Num(3)), RawNumber(Num(500)), STR_0xAAA),
                       Side(RawNumber(Num(3)), RawNumber(Num(500)), STR_0xAAA)) :
                   type \in {STR_BUY, STR_Sell, STR_transfer, JsNull}}

\* buys that differ in their pair label
LabelsPool(chain) ==
    IF chain # "eth" THEN {}
    ELSE {RawBuy(label, TS_JAN, 3, 500, STR_0xAAA) :
              label \in {STR_WETH_USDC, STR_ETH_USDT, STR_wBTC_USDC, STR_W_USDC,
                         STR_NoBase_USDC, STR_Padded_WETH_USDC, STR_WW_USDC, STR_ETH,
                         <<>>, JsNull}}

\* three assets, each bought on a chain of its own
SpreadPool(chain) ==
    CASE chain = "eth" -> {RawBuy(STR_WETH_USDC, TS_JAN, 2, 500, STR_0xAAA)}
      [] chain = "bsc" -> {RawBuy(STR_WBTC_USDC, TS_JAN, 4, 500, STR_0xCCC)}
      [] chain = "arbitrum" -> {RawBuy(STR_LINK_USDC, TS_JAN, 7, 500, STR_0xBBB)}
      [] OTHER -> {}

Pools == {"trades", "bridged", "timestamps", "dirty", "dust", "types", "labels", "spread"}

Upstream(pool, chain) ==
    CASE pool = "trades" -> TradesPool(chain)
      [] pool = "bridged" -> BridgedPool(chain)
      [] pool = "timestamps" -> TimestampPool(chain)
      [] pool = "dirty" -> DirtyPool(chain)
      [] pool = "dust" -> DustPool(chain)
      [] pool = "types" -> TypesPool(chain)
      [] pool = "labels" -> LabelsPool(chain)
      [] pool = "spread" -> SpreadPool(chain)

\* body.limit of the request: one record per page
limit == 1

\* the pages the provider may answer with: at most limit records
Pages(pool, chain) ==
    UNION {[1..n -> Upstream(pool, chain)] : n \in 0..limit}

CURSOR_A == <<97>>
CURSOR_B == <<98>>
\* getNextCursor: a cursor, or null
NextCursors == {JsNull, CURSOR_A, CURSOR_B}

\* the runs explored: an input class and the request's chains (after the
\* filter on DEFAULT_CHAINS)
Requests ==
    {<<"trades", <<"eth">>>>,
     <<"dirty", <<>>>>,
     <<"dirty", <<"eth">>>>,
     <<"dust", <<"eth">>>>,
     <<"types", <<"eth">>>>,
     <<"labels", <<"eth">>>>,
     <<"spread", <<"eth", "bsc", "arbitrum">>>>,
     <<"bridged", <<"eth", "bsc">>>>,
     <<"bridged", <<"bsc", "eth">>>>,
     <<"timestamps", <<"eth", "bsc">>>>,
     <<"timestamps", <<"bsc", "eth">>>>,
     <<"timestamps", <<"eth", "eth">>>>}

\* the entries one price response may hold, for the tokens asked about
PricePool(tokens) ==
    {[tokenAddress |-> a, usdPrice |-> RawNumber(Num(150))] :
         a \in {tokens[i] : i \in 1..Len(tokens)} \cup {STR_0xCCC}}
    \cup {[tokenAddress |-> tokens[1], usdPrice |-> RawOther]}

PriceResponses(tokens) ==
    UNION {[1..n -> PricePool(tokens)] : n \in 0..MaxPriceItems}

(***************************************************************************)
(* The state of one POST request.                                          *)
(***************************************************************************)
VARIABLES
    upstream,                \* the input class the provider answers from
    chains,                  \* the request's chains
    pc,                      \* "fetch", "replay", "price" or "done"
    chainIdx,                \* position of the fetch loop in chains
    cursor, pageCount,       \* pagination state of the chain being fetched
    combinedPages,           \* the records fetched so far for that chain
    resultsByChain,          \* chain -> simplified records
    fetched,                 \* every record a page has brought, in the order of arrival
    combined,                \* the flattened, sorted records
    itemIdx,                 \* position of the replay loop in combined
    holdings, holdingsByTokenKey, tokenKeyMeta, positionCostUsdBySymbol,
    realizedPnlUsd, pnl, minPnlDuringCalc,
    chosenPerSymbol, tokensByChain, amountByChainAndAddress,
    priceIdx,                \* position of the price loop in tokensByChain
    priceData,               \* what each price request so far came back with
    holdingsValueUsd,
    response,                \* the JSON body returned, once done
    peer                     \* a second POST request, served at the same time

\* The page (src/app/page.js): the state of Home and of one handleSubmit.
VARIABLES
    useMock,                 \* USE_MOCK, a switch of the build
    addressInput,            \* address, the text of the input
    loading, error, result, currentStep,
    listenerStep,            \* currentStep as the registered onKeyDown closure holds it
    submitPc,                \* where handleSubmit waits: "idle", "mock" or "fetch"
    timers                   \* pending setTimeout(() => setLoading(false), 120)

fetchVars == <<chainIdx, cursor, pageCount, combinedPages, resultsByChain, fetched>>
ledgerVars == <<holdings, holdingsByTokenKey, tokenKeyMeta, positionCostUsdBySymbol,
                realizedPnlUsd, pnl, minPnlDuringCalc>>
priceVars == <<chosenPerSymbol, tokensByChain, amountByChainAndAddress, priceIdx,
               priceData, holdingsValueUsd>>
pageVars == <<useMock, addressInput, loading, error, result, currentStep, listenerStep,
              submitPc, timers>>
vars == <<upstream, chains, pc, fetchVars, combined, itemIdx, ledgerVars, priceVars, response,
          peer, pageVars>>

Ledger ==
    [holdings                |-> holdings,
     holdingsByTokenKey      |-> holdingsByTokenKey,
     tokenKeyMeta            |-> tokenKeyMeta,
     positionCostUsdBySymbol |-> positionCostUsdBySymbol,
     realizedPnlUsd          |-> realizedPnlUsd,
     pnl                     |-> pnl,
     minPnlDuringCalc        |-> minPnlDuringCalc]

SetLedger(L) ==
    /\ holdings' = L.holdings
    /\ holdingsByTokenKey' = L.holdingsByTokenKey
    /\ tokenKeyMeta' = L.tokenKeyMeta
    /\ positionCostUsdBySymbol' = L.positionCostUsdBySymbol
    /\ realizedPnlUsd' = L.realizedPnlUsd
    /\ pnl' = L.pnl
    /\ minPnlDuringCalc' = L.minPnlDuringCalc

NoResponse == [status |-> 0]

\* the locals of the second request, before its first await returns
PeerStart ==
    [pc                      |-> "fetch",
     items                   |-> <<>>,
     combined                |-> <<>>,
     met                     |-> EmptyLedger,
     ledger                  |-> EmptyLedger,
     tokensByChain           |-> EmptyObject,
     amountByChainAndAddress |-> EmptyObject,
     priceIdx                |-> 1,
     priceData               |-> <<>>,
     holdingsValueUsd        |-> 0,
     response                |-> NoResponse]

\* the state of one POST request as the handler starts
HandlerStart ==
    /\ \E r \in Requests : upstream = r[1] /\ chains = r[2]
    /\ pc = "fetch"
    /\ chainIdx = 1
    /\ cursor = JsNull
    /\ pageCount = 0
    /\ combinedPages = <<>>
    /\ resultsByChain = EmptyObject
    /\ fetched = <<>>
    /\ combined = <<>>
    /\ itemIdx = 1
    /\ holdings = EmptyObject
    /\ holdingsByTokenKey = EmptyObject
    /\ tokenKeyMeta = EmptyObject
    /\ positionCostUsdBySymbol = EmptyObject
    /\ realizedPnlUsd = 0
    /\ pnl = 0
    /\ minPnlDuringCalc = 0
    /\ chosenPerSymbol = EmptyObject
    /\ tokensByChain = EmptyObject
    /\ amountByChainAndAddress = EmptyObject
    /\ priceIdx = 1
    /\ priceData = <<>>
    /\ holdingsValueUsd = 0
    /\ response = NoResponse
    /\ peer = PeerStart

\* const USE_MOCK = true, as committed
USE_MOCK == TRUE

\* useState(...) of Home, and no handleSubmit under way
NullResult == "null"
PageStart ==
    /\ addressInput = <<>>
    /\ loading = FALSE
    /\ error = ""
    /\ result = NullResult
    /\ currentStep = 0
    /\ listenerStep = 0
    /\ submitPc = "idle"
    /\ timers = 0

Init ==
    /\ useMock = USE_MOCK
    /\ PageStart
    /\ HandlerStart

(***************************************************************************)
(* Fetching the swaps of each chain, page by page (lines 104-174).         *)
(***************************************************************************)
Fetching == pc = "fetch" /\ chainIdx <= Len(chains)

Simplified(rawItems, chain) ==
    [i \in 1..Len(rawItems) |-> SimplifiedItem(rawItems[i], chain)]

\* the records the replay would see if the current chain ended with rawItems
WouldReplay(rawItems) ==
    FlatMapChains(chains, Put(resultsByChain, chains[chainIdx],
                              Simplified(rawItems, chains[chainIdx])))

\* the loop over one chain ends: resultsByChain[chain] = { items: simplified, ... }
EndChain(rawItems) ==
    /\ resultsByChain' = Put(resultsByChain, chains[chainIdx],
                             Simplified(rawItems, chains[chainIdx]))
    /\ chainIdx' = chainIdx + 1
    /\ cursor' = JsNull
    /\ pageCount' = 0
    /\ combinedPages' = <<>>

\* !nextCursor || nextCursor === cursor, or the safety stop
\* fault: the safety stop is missing
StopsPaging_NoSafetyStop(nextCursor, cur, count) ==
    nextCursor = JsNull \/ nextCursor = cur

StopsPaging(nextCursor, cur, count) ==
    nextCursor = JsNull \/ nextCursor = cur \/ count > PageLimit

\* an OK response holding a page and possibly a cursor
FetchPage ==
    /\ Fetching
    /\ \E page \in Pages(upstream, chains[chainIdx]), nextCursor \in NextCursors :
         /\ Len(WouldReplay(combinedPages \o page)) <= MaxEvents
         /\ fetched' = fetched \o Simplified(page, chains[chainIdx])
         /\ IF StopsPaging(nextCursor, cursor, pageCount + 1)
            THEN EndChain(combinedPages \o page)
            ELSE /\ combinedPages' = combinedPages \o page
                 /\ cursor' = nextCursor
                 /\ pageCount' = pageCount + 1
                 /\ UNCHANGED <<resultsByChain, chainIdx>>
    /\ UNCHANGED <<pageVars, peer, upstream, chains, pc, combined, itemIdx, ledgerVars, priceVars, response>>

\* a response that is not OK: the loop of this chain ends with what it has
\* (the errors list it appends to is never read)
FetchNotOk ==
    /\ Fetching
    /\ EndChain(combinedPages)
    /\ UNCHANGED fetched
    /\ UNCHANGED <<pageVars, peer, upstream, chains, pc, combined, itemIdx, ledgerVars, priceVars, response>>

\* fetch throws: the same
FetchNetworkError ==
    /\ Fetching
    /\ EndChain(combinedPages)
    /\ UNCHANGED fetched
    /\ UNCHANGED <<pageVars, peer, upstream, chains, pc, combined, itemIdx, ledgerVars, priceVars, response>>

\* Flatten and sort; the accumulators of the replay start empty (lines 176-193)
Flatten ==
    /\ pc = "fetch"
    /\ chainIdx > Len(chains)
    /\ combined' = FlattenAndSort(chains, resultsByChain)
    /\ itemIdx' = 1
    /\ pc' = "replay"
    /\ UNCHANGED <<pageVars, peer, upstream, chains, fetchVars, ledgerVars, priceVars, response>>

(***************************************************************************)
(* Replay, one record per step (lines 195-246).                            *)
(***************************************************************************)
Replay ==
    /\ pc = "replay"
    /\ itemIdx <= Len(combined)
    /\ SetLedger(ReplayItem(Ledger, combined[itemIdx]))
    /\ itemIdx' = itemIdx + 1
    /\ UNCHANGED <<pageVars, peer, upstream, chains, pc, fetchVars, combined, priceVars, response>>

\* the replay is over: pick one token per symbol and group by chain (lines 248-270)
Resolve ==
    /\ pc = "replay"
    /\ itemIdx > Len(combined)
    /\ chosenPerSymbol' = ChosenPerSymbol(holdingsByTokenKey, tokenKeyMeta, holdings)
    /\ tokensByChain' = GroupByChain(chosenPerSymbol', EmptyObject)
    /\ amountByChainAndAddress' = AmountsByKey(chosenPerSymbol', EmptyObject)
    /\ priceIdx' = 1
    /\ priceData' = <<>>
    /\ holdingsValueUsd' = 0
    /\ pc' = "price"
    /\ UNCHANGED <<pageVars, peer, upstream, chains, fetchVars, combined, itemIdx, ledgerVars, response>>

(***************************************************************************)
(* Pricing, one chain per step (lines 272-303), and the response.          *)
(***************************************************************************)
Pricing == pc = "price" /\ priceIdx <= Len(tokensByChain)

\* the price request of one chain is answered with a list of prices
PriceAnswer ==
    /\ Pricing
    /\ \E priceItems \in PriceResponses(tokensByChain[priceIdx].v) :
         /\ holdingsValueUsd' = AddPrices(holdingsValueUsd, priceItems,
                                          tokensByChain[priceIdx].k, amountByChainAndAddress)
         /\ priceData' = Append(priceData, [chain |-> tokensByChain[priceIdx].k,
                                            tokens |-> tokensByChain[priceIdx].v,
                                            threw |-> FALSE, priceItems |-> priceItems])
    /\ priceIdx' = priceIdx + 1
    /\ UNCHANGED <<pageVars, peer, upstream, chains, pc, fetchVars, combined, itemIdx, ledgerVars,
                   chosenPerSymbol, tokensByChain, amountByChainAndAddress, response>>

\* fault: no try/catch around the price request, the outer catch answers 500
PriceError_Aborts ==
    /\ Pricing
    /\ response' = [status |-> 500]
    /\ pc' = "done"
    /\ UNCHANGED <<pageVars, peer, upstream, chains, fetchVars, combined, itemIdx, ledgerVars, priceVars>>
\* the price request of one chain throws: ignored
PriceError ==
    /\ Pricing
    /\ priceData' = Append(priceData, [chain |-> tokensByChain[priceIdx].k,
                                       tokens |-> tokensByChain[priceIdx].v,
                                       threw |-> TRUE, priceItems |-> <<>>])
    /\ priceIdx' = priceIdx + 1
    /\ UNCHANGED <<pageVars, peer, upstream, chains, pc, fetchVars, combined, itemIdx, ledgerVars,
                   chosenPerSymbol, tokensByChain, amountByChainAndAddress,
                   holdingsValueUsd, response>>

Respond ==
    /\ pc = "price"
    /\ priceIdx > Len(tokensByChain)
    /\ response' = [status |-> 200,
                    body |-> Result(holdings, positionCostUsdBySymbol, realizedPnlUsd,
                                    minPnlDuringCalc, holdingsValueUsd)]
    /\ pnl' = response'.body.pnl
    /\ pc' = "done"
    /\ UNCHANGED <<pageVars, peer, upstream, chains, fetchVars, combined, itemIdx, holdings,
                   holdingsByTokenKey, tokenKeyMeta, positionCostUsdBySymbol,
                   realizedPnlUsd, minPnlDuringCalc, priceVars>>

Next ==
    \/ FetchPage
    \/ FetchNotOk
    \/ FetchNetworkError
    \/ Flatten
    \/ Replay
    \/ Resolve
    \/ PriceAnswer
    \/ PriceError
    \/ Respond

Spec == Init /\ [][Next]_vars

(***************************************************************************)
(* Two requests served at the same time.  The server runs one piece of     *)
(* JavaScript at a time and switches between requests where one awaits;    *)
(* the second request is followed from one await to the next (its replay   *)
(* and resolver run without an await, lines 176-270), the first in the     *)
(* steps above, which cut its run finer than the awaits do.                *)
(***************************************************************************)
\* fault: the accumulators live at module level, a call goes on from what
\* another call has put there
NewLedger_Shared(existing) == existing
\* fault: realizedPnlUsd lives at module level and is never reset
NewLedger_KeepsRealized(existing) ==
    [EmptyLedger EXCEPT !.realizedPnlUsd = existing.realizedPnlUsd]
\* const holdings = Object.create(null), ..., let minPnlDuringCalc = 0: made
\* by each call of POST; `existing` is what another call has in its own
NewLedger(existing) == EmptyLedger

\* the replay loop over all records
RECURSIVE ReplayAll(_, _)
ReplayAll(items, L) ==
    IF items = <<>> THEN L ELSE ReplayAll(Tail(items), ReplayItem(L, Head(items)))

\* the chain the second request asks for
PeerChain == "eth"

\* the two requests that are served together
PairRequests == {<<"dust", <<"eth">>>>}

PairInit == Init /\ <<upstream, chains>> \in PairRequests

runVars == <<upstream, chains, pc, fetchVars, combined, itemIdx, ledgerVars, priceVars, response>>

\* a page of the second request's swaps arrives
PeerFetch ==
    /\ peer.pc = "fetch"
    /\ Len(peer.items) < PeerEvents
    /\ \E rawItem \in Upstream(upstream, PeerChain) :
           peer' = [peer EXCEPT !.items = Append(@, SimplifiedItem(rawItem, PeerChain))]
    /\ UNCHANGED <<runVars, pageVars>>

\* its last page arrived: flatten and sort, replay, resolve, and the first
\* price request goes out (lines 176-287)
PeerReplay ==
    /\ peer.pc = "fetch"
    /\ LET sorted == SortItems(peer.items)
           L      == ReplayAll(sorted, NewLedger(Ledger))
           chosen == ChosenPerSymbol(L.holdingsByTokenKey, L.tokenKeyMeta, L.holdings)
       IN  peer' = [peer EXCEPT !.pc = "price",
                                !.combined = sorted,
                                !.met = Ledger,
                                !.ledger = L,
                                !.tokensByChain = GroupByChain(chosen, EmptyObject),
                                !.amountByChainAndAddress = AmountsByKey(chosen, EmptyObject)]
    /\ UNCHANGED <<runVars, pageVars>>

PeerPricing == peer.pc = "price" /\ peer.priceIdx <= Len(peer.tokensByChain)

\* a price request of the second request is answered
PeerPriceAnswer ==
    /\ PeerPricing
    /\ \E priceItems \in PriceResponses(peer.tokensByChain[peer.priceIdx].v) :
           peer' = [peer EXCEPT
                      !.holdingsValueUsd =
                          AddPrices(@, priceItems, peer.tokensByChain[peer.priceIdx].k,
                                    peer.amountByChainAndAddress),
                      !.priceData =
                          Append(@, [chain |-> peer.tokensByChain[peer.priceIdx].k,
                                     tokens |-> peer.tokensByChain[peer.priceIdx].v,
                                     threw |-> FALSE, priceItems |-> priceItems]),
                      !.priceIdx = @ + 1]
    /\ UNCHANGED <<runVars, pageVars>>

\* a price request of the second request throws
PeerPriceError ==
    /\ PeerPricing
    /\ peer' = [peer EXCEPT
                  !.priceData =
                      Append(@, [chain |-> peer.tokensByChain[peer.priceIdx].k,
                                 tokens |-> peer.tokensByChain[peer.priceIdx].v,
                                 threw |-> TRUE, priceItems |-> <<>>]),
                  !.priceIdx = @ + 1]
    /\ UNCHANGED <<runVars, pageVars>>

PeerRespond ==
    /\ peer.pc = "price"
    /\ peer.priceIdx > Len(peer.tokensByChain)
    /\ peer' = [peer EXCEPT
                  !.pc = "done",
                  !.response =
                      [status |-> 200,
                       body |-> Result(peer.ledger.holdings,
                                       peer.ledger.positionCostUsdBySymbol,
                                       peer.ledger.realizedPnlUsd,
                                       peer.ledger.minPnlDuringCalc,
                                       peer.holdingsValueUsd)]]
    /\ UNCHANGED <<runVars, pageVars>>

PairNext ==
    \/ FetchPage
    \/ FetchNotOk
    \/ FetchNetworkError
    \/ Flatten
    \/ Replay
    \/ Resolve
    \/ PriceAnswer
    \/ PriceError
    \/ Respond
    \/ PeerFetch
    \/ PeerReplay
    \/ PeerPriceAnswer
    \/ PeerPriceError
    \/ PeerRespond

PairSpec == PairInit /\ [][PairNext]_vars

(***************************************************************************)
(* Vocabulary of the properties.                                           *)
(***************************************************************************)
\* the replay loop is about to process combined[itemIdx]
Replaying == pc = "replay" /\ itemIdx <= Len(combined)
Current == combined[itemIdx]
\* the record processed last
Last == combined[itemIdx - 1]

SymbolOf(item) == getBaseTokenSymbol(item.pairLabel)
IsBuy(item) == SymbolOf(item) # JsNull /\ TypeOf(item) = STR_buy
IsSell(item) == SymbolOf(item) # JsNull /\ TypeOf(item) = STR_sell
BuyQuantity(item) == AbsNumber(item.boughtAmount)
BuyUsd(item) == AbsNumber(item.boughtUsdAmount)
SellRequested(item) == AbsNumber(item.soldAmount)
SellUsd(item) == AbsNumber(item.soldUsdAmount)
AcceptedBuy(item) == IsBuy(item) /\ BuyQuantity(item) > 0 /\ BuyUsd(item) > 0
\* a sell with usable amounts against a positive holding
AcceptedSell(item) ==
    /\ IsSell(item) /\ SellRequested(item) > 0 /\ SellUsd(item) > 0
    /\ GetOrZero(holdings, SymbolOf(item)) > 0

Held(symbol) == GetOrZero(holdings, symbol)
CostBasis(symbol) == GetOrZero(positionCostUsdBySymbol, symbol)
Symbols == KeySet(holdings) \cup KeySet(positionCostUsdBySymbol)
TokenAmount(key) == GetOrZero(holdingsByTokenKey, key)

\* the records replayed so far are exactly these (pair label, type, quantity, USD)
Trade(item) ==
    IF IsBuy(item) THEN <<"buy", SymbolOf(item), BuyQuantity(item), BuyUsd(item)>>
    ELSE IF IsSell(item) THEN <<"sell", SymbolOf(item), SellRequested(item), SellUsd(item)>>
    ELSE <<"other">>
Replayed(trades) ==
    /\ pc # "fetch"
    /\ itemIdx = Len(trades) + 1
    /\ \A i \in 1..Len(trades) : Trade(combined[i]) = trades[i]

(***************************************************************************)
(* C1.  After replaying any sequence of buys and sells every symbol's cost *)
(* basis is >= 0, and it is exactly 0 whenever the symbol's held quantity  *)
(* is 0.                                                                   *)
(***************************************************************************)
C1_CostBasisZeroWhenFlat ==
    \A symbol \in Symbols :
        /\ CostBasis(symbol) >= 0
        /\ Held(symbol) = 0 => CostBasis(symbol) = 0

(***************************************************************************)
(* C2.  A sell of quantity q against a positive holding h < q sells h:     *)
(* the cash-flow trace gains usd * (h / q), realized PnL changes by those  *)
(* proceeds minus the whole cost basis before the sell, and the held       *)
(* quantity becomes 0.                                                     *)
(***************************************************************************)
ClampedSell(item) == AcceptedSell(item) /\ Held(SymbolOf(item)) < SellRequested(item)

ScaledProceeds(item, sold) == FMul(SellUsd(item), FDiv(sold, SellRequested(item)))

C2_ClampedSellRealizesWholeBasis ==
    [][(Replaying /\ ClampedSell(Current)) =>
         LET symbol   == SymbolOf(Current)
             proceeds == ScaledProceeds(Current, Held(symbol))
         IN  /\ GetOrZero(holdings', symbol) = 0
             /\ pnl' = FAdd(pnl, proceeds)
             /\ realizedPnlUsd' = FAdd(realizedPnlUsd, FSub(proceeds, CostBasis(symbol)))]_vars

(***************************************************************************)
(* C3.  Every accepted sell adds proceeds - (cost basis / held) * sold to  *)
(* realized PnL, takes that realized cost off the cost basis and the sold  *)
(* quantity off the holding; buying 10 for $1000 and selling 4 for $500    *)
(* gives realized PnL 100, held 6, cost basis 600.                         *)
(***************************************************************************)
SoldQuantity(item) == Min(Held(SymbolOf(item)), SellRequested(item))
AverageCostOfSold(item) ==
    FMul(FDiv(CostBasis(SymbolOf(item)), Held(SymbolOf(item))), SoldQuantity(item))

ScenarioB ==
    Replayed(<<<<"buy", STR_ETH, Num(10), Num(1000)>>, <<"sell", STR_ETH, Num(4), Num(500)>>>>)

ScenarioBOutcome ==
    ScenarioB => /\ realizedPnlUsd = Num(100)
                 /\ Held(STR_ETH) = Num(6)
                 /\ CostBasis(STR_ETH) = Num(600)

BuyKey(item) == TokenKey(item.chain, item.boughtAddress)
TokenKeys == KeySet(holdingsByTokenKey)

C4_BuyEffect ==
    [][(Replaying /\ AcceptedBuy(Current)) =>
         LET symbol == SymbolOf(Current)
             q      == BuyQuantity(Current)
             u      == BuyUsd(Current)
         IN  /\ GetOrZero(holdings', symbol) = FAdd(Held(symbol), q)
             /\ GetOrZero(positionCostUsdBySymbol', symbol) = FAdd(CostBasis(symbol), u)
             /\ pnl' = FSub(pnl, u)
             /\ realizedPnlUsd' = realizedPnlUsd
             /\ KeySet(holdings') = KeySet(holdings) \cup {symbol}
             /\ KeySet(positionCostUsdBySymbol') =
                    KeySet(positionCostUsdBySymbol) \cup {symbol}
             /\ \A other \in Symbols \ {symbol} :
                    /\ GetOrZero(holdings', other) = Held(other)
                    /\ GetOrZero(positionCostUsdBySymbol', other) = CostBasis(other)
             /\ IF HasChainAndAddress(Current.chain, Current.boughtAddress)
                THEN /\ GetOrZero(holdingsByTokenKey', BuyKey(Current)) =
                           FAdd(TokenAmount(BuyKey(Current)), q)
                     /\ KeySet(holdingsByTokenKey') = TokenKeys \cup {BuyKey(Current)}
                     /\ \A other \in TokenKeys \ {BuyKey(Current)} :
                           GetOrZero(holdingsByTokenKey', other) = TokenAmount(other)
                ELSE holdingsByTokenKey' = holdingsByTokenKey]_vars

\* a buy with a token address has been replayed beside another symbol's
\* position and another token key
C4_Witness ==
    /\ pc = "replay" /\ itemIdx > 1
    /\ AcceptedBuy(Last)
    /\ HasChainAndAddress(Last.chain, Last.boughtAddress)
    /\ Cardinality(KeySet(holdings) \ {SymbolOf(Last)}) >= 1
    /\ Cardinality(TokenKeys \ {BuyKey(Last)}) >= 1

(***************************************************************************)
(* C5.  A sell for a symbol with no position or a zero holding changes     *)
(* nothing: holdings, cost bases, realized PnL, the cash-flow trace and    *)
(* its minimum, and every token key amount stay as they are.               *)
(***************************************************************************)
C5_SellWithoutHoldingIsNoOp ==
    [][(Replaying /\ IsSell(Current) /\ Held(SymbolOf(Current)) = 0) =>
         UNCHANGED ledgerVars]_vars

\* a position was bought, sold out, and sold again
C5_Witness ==
    /\ Replayed(<<<<"buy", STR_ETH, Num(10), Num(1000)>>,
                  <<"sell", STR_ETH, Num(10), Num(1000)>>,
                  <<"sell", STR_ETH, Num(4), Num(500)>>>>)
    /\ HasKey(holdings, STR_ETH) /\ Held(STR_ETH) = 0
    /\ pnl = 0

(***************************************************************************)
(* C6.  Records are replayed in non-decreasing timestamp order, whatever   *)
(* the chain and page order they were fetched in: a record processed       *)
(* before another has a timestamp <= the other's, compared as strings (a   *)
(* record without a string timestamp counts as "", as the sort has it).    *)
(***************************************************************************)
\* a <= b of two JavaScript strings: by code units
RECURSIVE StringLeq(_, _)
StringLeq(a, b) ==
    IF a = <<>> THEN TRUE
    ELSE IF b = <<>> THEN FALSE
    ELSE IF Head(a) < Head(b) THEN TRUE
    ELSE IF Head(a) > Head(b) THEN FALSE
    ELSE StringLeq(Tail(a), Tail(b))

C6_ReplayInTimestampOrder ==
    pc # "fetch" =>
        \A i, j \in 1..Len(combined) :
            i < j => StringLeq(SortKey(combined[i]), SortKey(combined[j]))

\* all records of a run were replayed, and they had been fetched out of order
C6_Witness ==
    /\ pc = "replay" /\ itemIdx > Len(combined)
    /\ Len(combined) = MaxEvents
    /\ FlatMapChains(chains, resultsByChain) # combined
    /\ \E i, j \in 1..Len(combined) : combined[i].chain # combined[j].chain
    /\ \E i \in 1..Len(combined) : ~IsString(combined[i].blockTimestamp)

(***************************************************************************)
(* C7.  A buy or sell record whose required quantity or USD amount is      *)
(* non-finite or <= 0, negative values included, is dropped: replaying it  *)
(* changes no ledger state.                                                *)
(***************************************************************************)
NotPositive(field) == field.kind # "number" \/ field.val <= 0
NullOrZero(field) == field.kind # "number" \/ field.val = 0
Negative(field) == field.kind = "number" /\ field.val < 0

\* as claimed: negative amounts are dropped too
C7_NonPositiveAmountsDropped ==
    [][(/\ Replaying
        /\ \/ IsBuy(Current) /\ (NotPositive(Current.boughtAmount)
                                    \/ NotPositive(Current.boughtUsdAmount))
           \/ IsSell(Current) /\ (NotPositive(Current.soldAmount)
                                     \/ NotPositive(Current.soldUsdAmount)))
       => UNCHANGED ledgerVars]_vars

Magnitude(field) == IF field.kind = "number" THEN RawNumber(Abs(field.val)) ELSE field
WithMagnitudes(item) ==
    [item EXCEPT !.boughtAmount = Magnitude(@), !.boughtUsdAmount = Magnitude(@),
                 !.soldAmount = Magnitude(@), !.soldUsdAmount = Magnitude(@)]

\* as the code has it: a non-finite or zero amount drops the record, and a
\* negative amount counts by its magnitude
C7_NullOrZeroAmountsDropped ==
    /\ [][(/\ Replaying
           /\ \/ IsBuy(Current) /\ (NullOrZero(Current.boughtAmount)
                                       \/ NullOrZero(Current.boughtUsdAmount))
              \/ IsSell(Current) /\ (NullOrZero(Current.soldAmount)
                                        \/ NullOrZero(Current.soldUsdAmount)))
          => UNCHANGED ledgerVars]_vars
    /\ [][(/\ Replaying
           /\ \/ IsBuy(Current) /\ Negative(Current.boughtAmount)
                                  /\ ~NullOrZero(Current.boughtUsdAmount)
              \/ IsSell(Current) /\ Negative(Current.soldAmount)
                                   /\ ~NullOrZero(Current.soldUsdAmount))
          => /\ SetLedger(ReplayItem(Ledger, WithMagnitudes(Current)))
             /\ AcceptedBuy(Current) => ledgerVars' # ledgerVars]_vars

\* after a buy, a buy with a zero or missing amount was replayed and dropped
C7_Witness ==
    /\ pc = "replay" /\ itemIdx = 3
    /\ AcceptedBuy(combined[1])
    /\ IsBuy(Last)
    /\ NullOrZero(Last.boughtAmount) \/ NullOrZero(Last.boughtUsdAmount)
    /\ Held(STR_ETH) > 0

(***************************************************************************)
(* C8.  investedUsd is the magnitude of the most negative value of the     *)
(* cumulative cash-flow trace (0 at the start, minus usd on a buy, plus    *)
(* the scaled proceeds on a sell) over all prefixes of the replay: buying  *)
(* for $1000, selling all for $1000 and buying for $1000 again gives 1000. *)
(***************************************************************************)
RECURSIVE LedgerAfter(_)
LedgerAfter(k) == IF k = 0 THEN EmptyLedger ELSE ReplayItem(LedgerAfter(k - 1), combined[k])

CashFlowAfter(k) == LedgerAfter(k).pnl
LowestCashFlow(n) ==
    CHOOSE m \in {CashFlowAfter(k) : k \in 0..n} :
        \A k \in 0..n : m <= CashFlowAfter(k)

Recycled ==
    Replayed(<<<<"buy", STR_ETH, Num(10), Num(1000)>>,
               <<"sell", STR_ETH, Num(10), Num(1000)>>,
               <<"buy", STR_ETH, Num(10), Num(1000)>>>>)

C8_InvestedIsPeakOutflow ==
    pc = "done" =>
        /\ response.body.investedUsd = Abs(LowestCashFlow(Len(combined)))
        /\ Recycled => response.body.investedUsd = Num(1000)

C8_Witness == pc = "done" /\ Recycled /\ response.body.investedUsd = Num(1000)

(***************************************************************************)
(* C9.  investedUsd never decreases along the replay; a buy that takes the *)
(* cash-flow trace to a new minimum raises it to the magnitude of that     *)
(* minimum, and a buy that sets no new minimum leaves it unchanged.        *)
(***************************************************************************)
InvestedSoFar == Abs(minPnlDuringCalc)

C9_InvestedMonotone ==
    /\ [][Abs(minPnlDuringCalc') >= InvestedSoFar]_vars
    /\ [][(Replaying /\ AcceptedBuy(Current)) =>
            IF pnl' < minPnlDuringCalc
            THEN Abs(minPnlDuringCalc') = Abs(pnl') /\ Abs(pnl') > InvestedSoFar
            ELSE Abs(minPnlDuringCalc') = InvestedSoFar]_vars
    /\ [](pc = "done" => response.body.investedUsd = InvestedSoFar)

\* a buy after a sell, smaller than the capital the sell returned
C9_Witness ==
    /\ Replayed(<<<<"buy", STR_ETH, Num(10), Num(1000)>>,
                  <<"sell", STR_ETH, Num(10), Num(1000)>>,
                  <<"buy", STR_ETH, Num(4), Num(500)>>>>)
    /\ pnl = -Num(500)
    /\ InvestedSoFar = Num(1000)

(***************************************************************************)
(* C10.  The resolver selects at most one (chain, address) per symbol; a   *)
(* token key is selected only if its remaining amount is > 0 and its       *)
(* symbol still has a held quantity > 0; a symbol with an eligible key     *)
(* always gets exactly one.                                                *)
(***************************************************************************)
Resolved == pc \in {"price", "done"}
KeySymbol(key) == Lookup(tokenKeyMeta, key).symbol
Eligible(key) ==
    /\ TokenAmount(key) > 0
    /\ HasKey(tokenKeyMeta, key)
    /\ Held(KeySymbol(key)) > 0
SelectedKey(sel) == TokenKey(sel.chain, sel.address)
\* the (chain, address) pairs handed to pricing
RECURSIVE PricedPairs(_)
PricedPairs(grouped) ==
    IF grouped = <<>> THEN <<>>
    ELSE [i \in 1..Len(Head(grouped).v) |-> <<Head(grouped).k, Head(grouped).v[i]>>]
         \o PricedPairs(Tail(grouped))

C10_OneEligibleKeyPerSymbol ==
    Resolved =>
        /\ \A i, j \in 1..Len(chosenPerSymbol) :
               chosenPerSymbol[i].k = chosenPerSymbol[j].k => i = j
        /\ \A i \in 1..Len(chosenPerSymbol) :
               LET key == SelectedKey(chosenPerSymbol[i].v)
               IN  /\ Eligible(key)
                   /\ KeySymbol(key) = chosenPerSymbol[i].k
                   /\ chosenPerSymbol[i].v.amount = TokenAmount(key)
        /\ \A key \in TokenKeys : Eligible(key) => HasKey(chosenPerSymbol, KeySymbol(key))
        /\ Len(PricedPairs(tokensByChain)) = Len(chosenPerSymbol)
        /\ \A i \in 1..Len(chosenPerSymbol) :
               \E n \in 1..Len(PricedPairs(tokensByChain)) :
                   PricedPairs(tokensByChain)[n] =
                       <<chosenPerSymbol[i].v.chain, chosenPerSymbol[i].v.address>>

\* one symbol with two eligible keys and one key that is not eligible
C10_Witness ==
    /\ pc = "price"
    /\ Len(chosenPerSymbol) = 1
    /\ Cardinality({key \in TokenKeys : Eligible(key)}) = 2

(***************************************************************************)
(* C11.  Among the eligible token keys of one symbol the resolver picks    *)
(* the one with the largest remaining amount (3 at 0xAAA and 7 at 0xBBB    *)
(* select 0xBBB); of equal largest amounts it picks the key inserted first *)
(* into the token-key ledger.                                              *)
(***************************************************************************)
KeyAAA == TokenKey("eth", STR_0xAAA)
KeyBBB == TokenKey("bsc", STR_0xBBB)
LedgerPosition(key) == IndexOfKey(holdingsByTokenKey, key)

C11_LargestAmountFirstInserted ==
    Resolved =>
        /\ \A i \in 1..Len(chosenPerSymbol), other \in TokenKeys :
               LET key == SelectedKey(chosenPerSymbol[i].v)
               IN  (Eligible(other) /\ KeySymbol(other) = chosenPerSymbol[i].k) =>
                       /\ TokenAmount(other) <= TokenAmount(key)
                       /\ TokenAmount(other) = TokenAmount(key) =>
                              LedgerPosition(key) <= LedgerPosition(other)
        /\ (/\ Eligible(KeyAAA) /\ TokenAmount(KeyAAA) = Num(3)
            /\ Eligible(KeyBBB) /\ TokenAmount(KeyBBB) = Num(7))
           => Lookup(chosenPerSymbol, STR_ETH).address = STR_0xBBB

\* equal amounts on two chains, the key of the second chain inserted first
C11_Witness ==
    /\ pc = "price"
    /\ Eligible(KeyAAA) /\ Eligible(KeyBBB)
    /\ TokenAmount(KeyAAA) = TokenAmount(KeyBBB)
    /\ LedgerPosition(KeyBBB) < LedgerPosition(KeyAAA)
    /\ Lookup(chosenPerSymbol, STR_ETH).address = STR_0xBBB

\* the example of the claim: 3 at 0xAAA, 7 at 0xBBB
C11_Example ==
    /\ pc = "price"
    /\ TokenAmount(KeyAAA) = Num(3) /\ TokenAmount(KeyBBB) = Num(7)
    /\ Lookup(chosenPerSymbol, STR_ETH).address = STR_0xBBB

(***************************************************************************)
(* C12.  holdingsValueUsd is the sum of chosenAmount * unitPriceUsd over   *)
(* exactly the resolved (chain, address) pairs that received a finite      *)
(* price; a resolved pair with no returned price adds 0 to the value while *)
(* its symbol's quantity is still present in the holdings output.          *)
(***************************************************************************)
\* the resolved pairs, as the resolver left them
ResolvedPairs == [i \in 1..Len(chosenPerSymbol) |-> chosenPerSymbol[i].v]
IsResolved(chain, address) ==
    \E i \in 1..Len(ResolvedPairs) : SelectedKey(ResolvedPairs[i]) = TokenKey(chain, address)
ChosenAmount(chain, address) ==
    LET i == CHOOSE i \in 1..Len(ResolvedPairs) :
                 SelectedKey(ResolvedPairs[i]) = TokenKey(chain, address)
    IN  ResolvedPairs[i].amount
\* a price entry that names a token and carries a finite price
FinitePrice(p) ==
    IsString(p.tokenAddress) /\ p.tokenAddress # <<>> /\ p.usdPrice.kind = "number"
\* a resolved pair received a finite price from the request of its chain
Priced(sel) ==
    \E n \in 1..Len(priceData) :
        /\ priceData[n].chain = sel.chain
        /\ \E i \in 1..Len(priceData[n].priceItems) :
               /\ FinitePrice(priceData[n].priceItems[i])
               /\ TokenKey(sel.chain, priceData[n].priceItems[i].tokenAddress) = SelectedKey(sel)
EntryValue(chain, p) ==
    IF FinitePrice(p) /\ IsResolved(chain, p.tokenAddress)
    THEN FMul(ChosenAmount(chain, p.tokenAddress), p.usdPrice.val)
    ELSE 0
RECURSIVE ValueOfEntries(_, _, _)
ValueOfEntries(priceItems, chain, total) ==
    IF priceItems = <<>> THEN total
    ELSE ValueOfEntries(Tail(priceItems), chain, FAdd(total, EntryValue(chain, Head(priceItems))))
RECURSIVE ValueOfPrices(_, _)
ValueOfPrices(data, total) ==
    IF data = <<>> THEN total
    ELSE ValueOfPrices(Tail(data), ValueOfEntries(Head(data).priceItems, Head(data).chain, total))

\* no response names the same token twice: it is a mapping address -> price
ListedOnce ==
    \A n \in 1..Len(priceData) :
        \A i, j \in 1..Len(priceData[n].priceItems) :
            (/\ FinitePrice(priceData[n].priceItems[i])
             /\ FinitePrice(priceData[n].priceItems[j])
             /\ ToLowerCase(priceData[n].priceItems[i].tokenAddress)
                    = ToLowerCase(priceData[n].priceItems[j].tokenAddress)) => i = j
PriceReceived(sel) ==
    LET n == CHOOSE n \in 1..Len(priceData) :
                 /\ priceData[n].chain = sel.chain
                 /\ \E i \in 1..Len(priceData[n].priceItems) :
                        /\ FinitePrice(priceData[n].priceItems[i])
                        /\ TokenKey(sel.chain, priceData[n].priceItems[i].tokenAddress)
                               = SelectedKey(sel)
        i == CHOOSE i \in 1..Len(priceData[n].priceItems) :
                 /\ FinitePrice(priceData[n].priceItems[i])
                 /\ TokenKey(sel.chain, priceData[n].priceItems[i].tokenAddress)
                        = SelectedKey(sel)
    IN  priceData[n].priceItems[i].usdPrice.val
RECURSIVE ValueOfPairs(_, _)
ValueOfPairs(pairs, total) ==
    IF pairs = <<>> THEN total
    ELSE ValueOfPairs(Tail(pairs),
                      IF Priced(Head(pairs))
                      THEN FAdd(total, FMul(Head(pairs).amount, PriceReceived(Head(pairs))))
                      ELSE total)

RECURSIVE OpenCost(_, _)
OpenCost(entries, total) ==
    IF entries = <<>> THEN total
    ELSE OpenCost(Tail(entries),
                  IF Head(entries).v > 0 THEN FAdd(total, CostBasis(Head(entries).k))
                  ELSE total)

C13_PnlIsRealizedPlusUnrealized ==
    pc = "done" =>
        /\ response.body.realizedPnlUsd = realizedPnlUsd
        /\ response.body.unrealizedPnlUsd =
               FSub(response.body.holdingsValueUsd, OpenCost(holdings, 0))
        /\ response.body.pnl =
               FAdd(response.body.realizedPnlUsd, response.body.unrealizedPnlUsd)

\* a result with realized and unrealized parts, a closed position beside an
\* open one, and a cash-flow trace that ended somewhere else than pnl
C13_Witness ==
    /\ pc = "done"
    /\ response.body.realizedPnlUsd # 0
    /\ response.body.holdingsValueUsd > 0
    /\ \E symbol \in Symbols : Held(symbol) = 0
    /\ \E symbol \in Symbols : Held(symbol) > 0 /\ CostBasis(symbol) > 0
    /\ response.body.pnl # CashFlowAfter(Len(combined))

(***************************************************************************)
(* C14.  A failed price lookup for one chain (a network error, or an       *)
(* unparsable or empty response) aborts neither the run nor the lookups of *)
(* the remaining chains: the run still returns a result, in which that     *)
(* chain's resolved assets add 0 to holdingsValueUsd and every other       *)
(* chain's contribution is unchanged.                                      *)
(***************************************************************************)
\* the lookup threw, or came back with no entries (unparsable bodies read as [])
FailedLookup(lookup) == lookup.threw \/ lookup.priceItems = <<>>
Succeeded(lookup) == ~FailedLookup(lookup)

C14_FailedLookupAddsNothing ==
    /\ [][(Pricing /\ Len(priceData') = Len(priceData) + 1
              /\ FailedLookup(priceData'[Len(priceData')]))
          => /\ holdingsValueUsd' = holdingsValueUsd
             /\ pc' = "price" /\ priceIdx' = priceIdx + 1]_vars
    /\ [](pc = "done" =>
            /\ response.status = 200
            /\ Len(priceData) = Len(tokensByChain)
            /\ \A n \in 1..Len(priceData) : priceData[n].chain = tokensByChain[n].k
            /\ response.body.holdingsValueUsd =
                   ValueOfPrices(SelectSeq(priceData, Succeeded), 0))

\* the lookup of the first chain threw, the second chain was still priced
C14_Witness ==
    /\ pc = "done" /\ response.status = 200
    /\ Len(priceData) = 2
    /\ priceData[1].threw
    /\ Succeeded(priceData[2])
    /\ response.body.holdingsValueUsd > 0
    /\ response.body.holdingsValueUsd = ValueOfEntries(priceData[2].priceItems, priceData[2].chain, 0)

(***************************************************************************)
(* C15.  Each price request is bounded by a per-call timeout: if the price *)
(* request of one chain never responds, the lookups of the other chains    *)
(* are still eventually issued and the run eventually returns a result.    *)
(***************************************************************************)
\* The steps the handler takes by itself, each told by the counter it moves:
\* Flatten, Replay, Resolve and Respond are the only steps of Next that fit.
Flattens == pc = "fetch" /\ chainIdx > Len(chains) /\ pc' = "replay"
Replays == pc = "replay" /\ itemIdx <= Len(combined) /\ itemIdx' = itemIdx + 1
Resolves == pc = "replay" /\ itemIdx > Len(combined) /\ pc' = "price"
Responds == pc = "price" /\ priceIdx > Len(tokensByChain) /\ pc' = "done"

\* The handler's own steps are taken eventually.  A response to a request
\* is the provider's to give: the fetch calls carry no signal and no timer,
\* so nothing in the handler ends an await that is not answered.
LiveSpec ==
    /\ Spec
    /\ WF_pc(Flattens)
    /\ WF_itemIdx(Replays)
    /\ WF_pc(Resolves)
    /\ WF_pc(Responds)

\* the same, were every price request ended by a timer: the claim then holds
TimedSpec == LiveSpec /\ WF_vars(PriceError)

\* a price request that was issued is followed by the response of the run
C15_RunReturnsDespiteSilentLookup == Pricing ~> (pc = "done")

(***************************************************************************)
(* C16.  When there are no eligible events (no chains, no records, or      *)
(* every record dropped) the run returns the zero result: pnl = 0,         *)
(* realizedPnlUsd = 0, unrealizedPnlUsd = 0, investedUsd = 0,              *)
(* holdingsValueUsd = 0, holdings = {}, and no price lookup is issued.     *)
(***************************************************************************)
\* record i was a buy with usable amounts, or a sell with usable amounts
\* against a positive holding
EligibleAt(i) ==
    \/ AcceptedBuy(combined[i])
    \/ /\ IsSell(combined[i])
       /\ SellRequested(combined[i]) > 0 /\ SellUsd(combined[i]) > 0
       /\ GetOrZero(LedgerAfter(i - 1).holdings, SymbolOf(combined[i])) > 0
NoEligibleEvents == \A i \in 1..Len(combined) : ~EligibleAt(i)
ZeroResult ==
    [pnl |-> 0, realizedPnlUsd |-> 0, unrealizedPnlUsd |-> 0, investedUsd |-> 0,
     holdings |-> EmptyObject, holdingsValueUsd |-> 0]

C16_ZeroResultWithoutEvents ==
    /\ (pc \in {"price", "done"} /\ NoEligibleEvents) =>
           tokensByChain = EmptyObject /\ priceData = <<>>
    /\ (pc = "done" /\ NoEligibleEvents) =>
           response.status = 200 /\ response.body = ZeroResult

\* a run whose records were all dropped: buys without usable amounts and a
\* sell, with usable amounts, of an asset that is not held
C16_Witness ==
    /\ pc = "done"
    /\ Len(combined) = MaxEvents
    /\ NoEligibleEvents
    /\ \E i \in 1..Len(combined) : IsBuy(combined[i])
    /\ \E i \in 1..Len(combined) :
           IsSell(combined[i]) /\ SellRequested(combined[i]) > 0 /\ SellUsd(combined[i]) > 0
    /\ response.body = ZeroResult

(***************************************************************************)
(* C17.  A record whose transaction type, compared without regard to case, *)
(* is neither buy nor sell is dropped: replaying it changes no ledger      *)
(* state.  Types such as "BUY" or "Sell" are treated as buy and sell.      *)
(***************************************************************************)
UpperCode(c) == IF c >= 97 /\ c <= 122 THEN c - 32 ELSE c
\* the record's type is this word, whatever the case of its letters
TypeIs(item, word) ==
    /\ IsString(item.transactionType)
    /\ Len(item.transactionType) = Len(word)
    /\ \A i \in 1..Len(word) : UpperCode(item.transactionType[i]) = UpperCode(word[i])
AsType(item, word) == [item EXCEPT !.transactionType = word]

C17_TypeComparedWithoutCase ==
    /\ [][(Replaying /\ ~TypeIs(Current, STR_buy) /\ ~TypeIs(Current, STR_sell))
          => UNCHANGED ledgerVars]_vars
    /\ [][(Replaying /\ TypeIs(Current, STR_buy))
          => /\ SetLedger(ReplayItem(Ledger, AsType(Current, STR_buy)))
             /\ (SymbolOf(Current) # JsNull /\ BuyQuantity(Current) > 0 /\ BuyUsd(Current) > 0)
                    => pnl' = FSub(pnl, BuyUsd(Current))]_vars
    /\ [][(Replaying /\ TypeIs(Current, STR_sell))
          => /\ SetLedger(ReplayItem(Ledger, AsType(Current, STR_sell)))
             /\ (SymbolOf(Current) # JsNull /\ SellRequested(Current) > 0
                   /\ SellUsd(Current) > 0 /\ Held(SymbolOf(Current)) > 0)
                    => GetOrZero(holdings', SymbolOf(Current)) < Held(SymbolOf(Current))]_vars

\* a "BUY" was replayed as a buy, a transfer after it was dropped, and a
\* "Sell" then sold what the "BUY" had bought
C17_Witness ==
    /\ pc = "replay" /\ itemIdx = 4
    /\ combined[1].transactionType = STR_BUY
    /\ combined[2].transactionType = STR_transfer
    /\ combined[3].transactionType = STR_Sell
    /\ HasKey(holdings, STR_ETH) /\ Held(STR_ETH) = 0
    /\ pnl = 0 /\ minPnlDuringCalc = -Num(500)

(***************************************************************************)
(* C18.  Symbol derivation: for a pair label "B/Q" the symbol is the base  *)
(* B; a base that starts with W or w and has at least one more character   *)
(* loses that first character (WETH -> ETH), a one-character base "W" is   *)
(* kept as it is, and an empty, non-string or base-less label yields no    *)
(* event.                                                                  *)
(***************************************************************************)
\* the label up to its first "/", without the white space around it
BeforeSlash(label) ==
    LET slashes == {i \in 1..Len(label) : label[i] = Slash}
        end     == IF slashes = {} THEN Len(label)
                   ELSE (CHOOSE i \in slashes : \A j \in slashes : i <= j) - 1
        inked   == {i \in 1..end : label[i] \notin WhiteSpace}
    IN  IF inked = {} THEN <<>>
        ELSE SubSeq(label, CHOOSE i \in inked : \A j \in inked : i <= j,
                           CHOOSE i \in inked : \A j \in inked : i >= j)
ExpectedSymbol(label) ==
    IF ~IsString(label) THEN JsNull
    ELSE LET base == BeforeSlash(label)
         IN  IF base = <<>> THEN JsNull
             ELSE IF Len(base) >= 2 /\ base[1] \in {UpperW, LowerW}
                  THEN SubSeq(base, 2, Len(base))
                  ELSE base

C18_SymbolDerivation ==
    /\ [](/\ \A i \in 1..Len(combined) :
               SymbolOf(combined[i]) = ExpectedSymbol(combined[i].pairLabel)
          /\ getBaseTokenSymbol(STR_WETH_USDC) = STR_ETH
          /\ getBaseTokenSymbol(STR_ETH_USDT) = STR_ETH
          /\ getBaseTokenSymbol(STR_wBTC_USDC) = STR_BTC
          /\ getBaseTokenSymbol(STR_W_USDC) = STR_W
          /\ getBaseTokenSymbol(STR_NoBase_USDC) = JsNull
          /\ getBaseTokenSymbol(<<>>) = JsNull
          /\ getBaseTokenSymbol(JsNull) = JsNull)
    /\ [][(Replaying /\ ExpectedSymbol(Current.pairLabel) = JsNull)
          => UNCHANGED ledgerVars]_vars
    /\ [][(Replaying /\ ExpectedSymbol(Current.pairLabel) # JsNull
              /\ TypeIs(Current, STR_buy) /\ BuyQuantity(Current) > 0 /\ BuyUsd(Current) > 0)
          => LET symbol == ExpectedSymbol(Current.pairLabel)
             IN  /\ GetOrZero(holdings', symbol) = FAdd(Held(symbol), BuyQuantity(Current))
                 /\ \A other \in (KeySet(holdings) \cup KeySet(holdings')) \ {symbol} :
                        GetOrZero(holdings', other) = Held(other)]_vars

\* buys labelled "W/USDC", "wBTC/USDC" and "/USDC" were replayed
C18_Witness ==
    /\ pc = "replay" /\ itemIdx = 4
    /\ combined[1].pairLabel = STR_W_USDC
    /\ combined[2].pairLabel = STR_wBTC_USDC
    /\ combined[3].pairLabel = STR_NoBase_USDC
    /\ Keys(holdings) = <<STR_W, STR_BTC>>
    /\ Held(STR_W) = Num(3) /\ Held(STR_BTC) = Num(3)

(***************************************************************************)
(* C19.  A sell that names a chain and a token address reduces only that   *)
(* chain:address token-key amount, by min(current amount, soldQty), and    *)
(* leaves every other token key unchanged; after any sequence of events    *)
(* every token-key amount is >= 0.                                         *)
(***************************************************************************)
SellKey(item) == TokenKey(item.chain, item.soldAddress)

C19_SellReducesItsTokenKey ==
    /\ [](\A key \in TokenKeys : TokenAmount(key) >= 0)
    /\ [][(/\ Replaying /\ AcceptedSell(Current)
           /\ IsString(Current.soldAddress) /\ Current.soldAddress # <<>>)
          => LET key  == SellKey(Current)
                 sold == Min(Held(SymbolOf(Current)), SellRequested(Current))
             IN  /\ GetOrZero(holdingsByTokenKey', key) =
                        FSub(TokenAmount(key), Min(TokenAmount(key), sold))
                 /\ \A other \in (TokenKeys \cup KeySet(holdingsByTokenKey')) \ {key} :
                        GetOrZero(holdingsByTokenKey', other) = TokenAmount(other)]_vars
    /\ [][(/\ Replaying /\ AcceptedSell(Current)
           /\ ~(IsString(Current.soldAddress) /\ Current.soldAddress # <<>>))
          => holdingsByTokenKey' = holdingsByTokenKey]_vars

\* 7 bought at 0xAAA and 3 at 0xBBB; a sell of 3 that names 0xBBB took 3
\* off 0xBBB and left 0xAAA as it was
C19_Witness ==
    /\ pc = "replay" /\ itemIdx = 4
    /\ IsSell(Last) /\ SellRequested(Last) = Num(3) /\ SellKey(Last) = KeyBBB
    /\ TokenAmount(KeyAAA) = Num(7) /\ TokenAmount(KeyBBB) = 0
    /\ Held(STR_ETH) = Num(7)

(***************************************************************************)
(* C20.  The price lookup is invoked exactly once for each chain that has  *)
(* at least one resolved representative and never for a chain that has     *)
(* none, and the addresses sent for a chain are exactly the addresses the  *)
(* resolver chose on that chain.                                           *)
(***************************************************************************)
ChainsResolved == {ResolvedPairs[i].chain : i \in 1..Len(ResolvedPairs)}
PairsOn(chain) == {i \in 1..Len(ResolvedPairs) : ResolvedPairs[i].chain = chain}
LookupsOf(chain) == {n \in 1..Len(priceData) : priceData[n].chain = chain}

C20_OneLookupPerResolvedChain ==
    /\ pc \in {"fetch", "replay"} => priceData = <<>>
    /\ pc \in {"price", "done"} =>
          \A n \in 1..Len(priceData) :
              /\ priceData[n].chain \in ChainsResolved
              /\ Cardinality(LookupsOf(priceData[n].chain)) = 1
              /\ Len(priceData[n].tokens) = Cardinality(PairsOn(priceData[n].chain))
              /\ {priceData[n].tokens[j] : j \in 1..Len(priceData[n].tokens)}
                     = {ResolvedPairs[i].address : i \in PairsOn(priceData[n].chain)}
    /\ pc = "done" =>
          \A chain \in ChainsResolved : Cardinality(LookupsOf(chain)) = 1

\* two chains had token keys left, the resolver chose on one of them only,
\* and that chain alone was looked up
C20_Witness ==
    /\ pc = "done"
    /\ TokenAmount(KeyAAA) > 0 /\ TokenAmount(KeyBBB) > TokenAmount(KeyAAA)
    /\ Len(priceData) = 1
    /\ priceData[1].chain = "bsc" /\ priceData[1].tokens = <<STR_0xBBB>>

(***************************************************************************)
(* C21.  holdingsValueUsd does not depend on the order in which the        *)
(* per-chain price lookups are issued or complete: the same lookups, with  *)
(* the same answers, taken in any other order add up to the same           *)
(* holdingsValueUsd.                                                       *)
(***************************************************************************)
\* the value the price loop arrives at when it takes these lookups in turn
RECURSIVE ValueInOrder(_, _)
ValueInOrder(lookups, total) ==
    IF lookups = <<>> THEN total
    ELSE ValueInOrder(Tail(lookups),
                      AddPrices(total, Head(lookups).priceItems, Head(lookups).chain,
                                amountByChainAndAddress))
Reordered(lookups, order) == [i \in 1..Len(lookups) |-> lookups[order[i]]]

C21_ValueIndependentOfLookupOrder ==
    pc = "done" =>
        \A order \in Permutations(1..Len(priceData)) :
            ValueInOrder(Reordered(priceData, order), 0) = response.body.holdingsValueUsd

\* with at most two priced entries the order makes no difference: a + b = b + a
PriceEntries ==
    Cardinality({e \in (1..Len(priceData)) \X (1..MaxPriceItems) :
                     e[2] <= Len(priceData[e[1]].priceItems)})

C21_TwoContributionsCommute ==
    (pc = "done" /\ PriceEntries <= 2) =>
        \A order \in Permutations(1..Len(priceData)) :
            ValueInOrder(Reordered(priceData, order), 0) = response.body.holdingsValueUsd

(***************************************************************************)
(* C22.  For a history that buys a symbol one or more times and then sells *)
(* the entire holding, realizedPnlUsd equals the sum of the sell proceeds  *)
(* minus the sum of the USD paid for the bought units, and the symbol ends *)
(* with heldQuantity 0 and costBasisUsd 0.                                 *)
(***************************************************************************)
\* exact sums, as the claim has them
RECURSIVE TotalOf(_)
TotalOf(amounts) == IF amounts = <<>> THEN 0 ELSE Head(amounts) + TotalOf(Tail(amounts))
UsdPaid(buys) == TotalOf([i \in 1..buys |-> BuyUsd(combined[i])])
Proceeds(buys) == TotalOf([i \in 1..(itemIdx - 1 - buys) |-> SellUsd(combined[buys + i])])

\* the records replayed so far are buys of one symbol, then sells of it,
\* each of no more than is held, that leave nothing
BoughtThenSoldOut(symbol, buys) ==
    LET n == itemIdx - 1
    IN  /\ pc = "replay"
        /\ buys >= 1 /\ buys < n
        /\ \A i \in 1..buys : AcceptedBuy(combined[i]) /\ SymbolOf(combined[i]) = symbol
        /\ \A i \in (buys + 1)..n :
               /\ IsSell(combined[i]) /\ SymbolOf(combined[i]) = symbol
               /\ SellRequested(combined[i]) > 0 /\ SellUsd(combined[i]) > 0
               /\ SellRequested(combined[i])
                      <= GetOrZero(LedgerAfter(i - 1).holdings, symbol)
        /\ Held(symbol) = 0

C22_RoundTripRealizesProceedsMinusCost ==
    \A symbol \in KeySet(holdings), buys \in 1..MaxEvents :
        BoughtThenSoldOut(symbol, buys) =>
            /\ realizedPnlUsd = Proceeds(buys) - UsdPaid(buys)
            /\ Held(symbol) = 0
            /\ CostBasis(symbol) = 0

(***************************************************************************)
(* C23.  For a buy-only history of one symbol on a single token address    *)
(* with total quantity Q, total USD paid U and current unit price p, the   *)
(* result is realizedPnlUsd = 0, holdings = {symbol: Q}, holdingsValueUsd  *)
(* = Q*p, unrealizedPnlUsd = Q*p - U, investedUsd = U and pnl = Q*p - U    *)
(* (10 units for $1000 at $150: the value of 10 units, that value less     *)
(* 1000, 1000, and the same again).  Totals, products and differences are  *)
(* those of the machine's numbers.                                         *)
(***************************************************************************)
\* amounts added up one after the other
RECURSIVE RunningTotal(_, _)
RunningTotal(amounts, total) ==
    IF amounts = <<>> THEN total
    ELSE RunningTotal(Tail(amounts), FAdd(total, Head(amounts)))

\* every record of the run was an accepted buy of the symbol at one token key
BuyOnly(symbol) ==
    /\ Len(combined) >= 1
    /\ \A i \in 1..Len(combined) :
           /\ AcceptedBuy(combined[i]) /\ SymbolOf(combined[i]) = symbol
           /\ HasChainAndAddress(combined[i].chain, combined[i].boughtAddress)
           /\ BuyKey(combined[i]) = BuyKey(combined[1])
QuantityBought == RunningTotal([i \in 1..Len(combined) |-> BuyQuantity(combined[i])], 0)
UsdBought == RunningTotal([i \in 1..Len(combined) |-> BuyUsd(combined[i])], 0)
\* the one lookup of the run came back with one finite price, for that token
PricedOnce ==
    /\ Len(priceData) = 1
    /\ Len(priceData[1].priceItems) = 1
    /\ FinitePrice(priceData[1].priceItems[1])
    /\ TokenKey(priceData[1].chain, priceData[1].priceItems[1].tokenAddress)
           = BuyKey(combined[1])
UnitPrice == priceData[1].priceItems[1].usdPrice.val

BuyOnlyResult(symbol, Q, U, p) ==
    [pnl              |-> FSub(FMul(Q, p), U),
     realizedPnlUsd   |-> 0,
     unrealizedPnlUsd |-> FSub(FMul(Q, p), U),
     investedUsd      |-> U,
     holdings         |-> <<[k |-> symbol, v |-> Q]>>,
     holdingsValueUsd |-> FMul(Q, p)]

ScenarioA ==
    /\ Len(combined) = 1
    /\ Trade(combined[1]) = <<"buy", STR_ETH, Num(10), Num(1000)>>
    /\ BuyOnly(STR_ETH) /\ PricedOnce /\ UnitPrice = Num(150)

C23_BuyOnlyResult ==
    pc = "done" =>
        /\ \A symbol \in KeySet(holdings) :
               (BuyOnly(symbol) /\ PricedOnce) =>
                   response.body = BuyOnlyResult(symbol, QuantityBought, UsdBought, UnitPrice)
        /\ ScenarioA =>
               response.body = BuyOnlyResult(STR_ETH, Num(10), Num(1000), Num(150))

\* two buys of the asset at one token, then priced
C23_Witness ==
    /\ pc = "done"
    /\ Len(combined) = 2
    /\ BuyOnly(STR_ETH) /\ PricedOnce
    /\ BuyQuantity(combined[1]) # BuyQuantity(combined[2])
    /\ response.body.holdingsValueUsd = FMul(QuantityBought, Num(150))
    /\ response.body.investedUsd = UsdBought

(***************************************************************************)
(* C24.  The holdings field of the result contains exactly the symbols     *)
(* whose final heldQuantity is > 0, each with that quantity; symbols sold   *)
(* down to zero are absent.                                                *)
(***************************************************************************)
C24_HoldingsArePositivePositions ==
    pc = "done" =>
        /\ KeySet(response.body.holdings) = {symbol \in KeySet(holdings) : Held(symbol) > 0}
        /\ \A i, j \in 1..Len(response.body.holdings) :
               response.body.holdings[i].k = response.body.holdings[j].k => i = j
        /\ \A symbol \in KeySet(response.body.holdings) :
               Lookup(response.body.holdings, symbol) = Held(symbol)

\* one asset was sold down to zero and is absent, another is still held
C24_Witness ==
    /\ pc = "done"
    /\ HasKey(holdings, STR_ETH) /\ Held(STR_ETH) = 0
    /\ Held(STR_BTC) > 0
    /\ Keys(response.body.holdings) = <<STR_BTC>>

(***************************************************************************)
(* C25.  Two runs for different wallets whose steps interleave at their    *)
(* suspension points share no ledger state: each run's result equals the   *)
(* result it produces when run alone on the same inputs (the records       *)
(* fetched for it and the answers to its price requests), and no step of   *)
(* one run changes what the other holds.                                   *)
(***************************************************************************)
RECURSIVE ValueOfLookups(_, _, _)
ValueOfLookups(lookups, amounts, total) ==
    IF lookups = <<>> THEN total
    ELSE ValueOfLookups(Tail(lookups), amounts,
                        AddPrices(total, Head(lookups).priceItems, Head(lookups).chain, amounts))

\* the result of a run that is alone: the sorted records go through a ledger
\* that starts empty, the resolver picks, the answers are added up
AloneResult(events, lookups) ==
    LET L       == ReplayAll(events, EmptyLedger)
        chosen  == ChosenPerSymbol(L.holdingsByTokenKey, L.tokenKeyMeta, L.holdings)
        amounts == AmountsByKey(chosen, EmptyObject)
    IN  Result(L.holdings, L.positionCostUsdBySymbol, L.realizedPnlUsd, L.minPnlDuringCalc,
               ValueOfLookups(lookups, amounts, 0))

C25_ConcurrentRunsDoNotInterfere ==
    /\ [](pc = "done" =>
            response.body = AloneResult(FlattenAndSort(chains, resultsByChain), priceData))
    /\ [](peer.pc = "done" =>
            peer.response.body = AloneResult(SortItems(peer.items), peer.priceData))
    /\ [][peer' # peer => UNCHANGED runVars]_vars
    /\ [][runVars' # runVars => peer' = peer]_vars

\* both runs returned, with different results; the second run replayed its
\* records while the first was in the middle of its own replay
C25_Witness ==
    /\ pc = "done" /\ peer.pc = "done"
    /\ peer.met # EmptyLedger /\ peer.met # Ledger
    /\ peer.ledger.holdings # EmptyObject
    /\ response.body.holdings # peer.response.body.holdings
    /\ response.body.realizedPnlUsd # peer.response.body.realizedPnlUsd

(***************************************************************************)
(* C26.  Replaying the identical, already-sorted event sequence twice      *)
(* through a fresh ledger with the same price responses yields identical   *)
(* results: two runs that replay the same sorted records and get the same  *)
(* answers to their price requests end with the same ledger and return the *)
(* same result.                                                            *)
(***************************************************************************)
SameEvents == pc \in {"price", "done"} /\ peer.pc \in {"price", "done"} /\ peer.combined = combined
SameAnswers == pc = "done" /\ peer.pc = "done" /\ peer.priceData = priceData

C27_TokenAmountWithinHolding ==
    /\ \A key \in TokenKeys :
           HasKey(tokenKeyMeta, key) => TokenAmount(key) <= Held(KeySymbol(key))
    /\ Resolved =>
           \A i \in 1..Len(chosenPerSymbol) :
               chosenPerSymbol[i].v.amount <= Held(chosenPerSymbol[i].k)

(***************************************************************************)
(* C28.  After every replayed event the running cash-flow trace equals     *)
(* realizedPnlUsd minus the sum of costBasisUsd over all symbols (total    *)
(* USD spent on buys = remaining cost basis + cost already realized by     *)
(* sells).                                                                 *)
(***************************************************************************)
CostBasisTotal ==
    RunningTotal([i \in 1..Len(positionCostUsdBySymbol) |-> positionCostUsdBySymbol[i].v], 0)

C28_CashFlowIsRealizedMinusCostBasis ==
    pc \in {"replay", "price"} => pnl = FSub(realizedPnlUsd, CostBasisTotal)

(***************************************************************************)
(* C29.  Whenever a symbol's heldQuantity is > 0 its costBasisUsd is > 0,  *)
(* so the guard posCostBefore > 0 never skips the realized-PnL update:     *)
(* every sell that reduces a holding also adds its proceeds minus cost to  *)
(* realizedPnlUsd.                                                         *)
(***************************************************************************)
C29_OpenPositionHasCostBasis ==
    /\ [](\A symbol \in Symbols : Held(symbol) > 0 => CostBasis(symbol) > 0)
    /\ [][(Replaying /\ AcceptedSell(Current)) =>
            realizedPnlUsd' =
                FAdd(realizedPnlUsd,
                     FSub(ScaledProceeds(Current, SoldQuantity(Current)),
                          AverageCostOfSold(Current)))]_vars

(***************************************************************************)
(* C30.  Every swap record fetched from the provider is replayed exactly   *)
(* once, also when the request's chains list names the same supported      *)
(* chain more than once.                                                   *)
(***************************************************************************)
Occurrences(items, x) == Cardinality({i \in 1..Len(items) : items[i] = x})
Records(items) == {items[i] : i \in 1..Len(items)}

\* the replay loop goes once over combined: the records it is given are the
\* records that were fetched, each as many times as it was fetched
C30_EveryFetchedRecordReplayedOnce ==
    pc # "fetch" =>
        /\ Len(combined) = Len(fetched)
        /\ \A x \in Records(fetched) \cup Records(combined) :
               Occurrences(combined, x) = Occurrences(fetched, x)

\* with no chain named twice the replay gets every fetched record once
C30_DistinctChainsReplayedOnce ==
    (pc # "fetch" /\ \A i, j \in 1..Len(chains) : chains[i] = chains[j] => i = j) =>
        /\ Len(combined) = Len(fetched)
        /\ \A x \in Records(fetched) \cup Records(combined) :
               Occurrences(combined, x) = Occurrences(fetched, x)

(***************************************************************************)
(* C31.  Each resolved (chain, address) pair contributes its chosenAmount  *)
(* * price to holdingsValueUsd at most once, also when a chain's price     *)
(* response lists the same token address more than once, and price items   *)
(* for addresses that were not resolved on that chain contribute nothing.  *)
(***************************************************************************)
\* entry i of a response names, with a finite price, a token that an earlier
\* entry of the same response named with a finite price
ListedBefore(priceItems, i) ==
    /\ FinitePrice(priceItems[i])
    /\ \E j \in 1..(i - 1) :
           /\ FinitePrice(priceItems[j])
           /\ ToLowerCase(priceItems[j].tokenAddress) = ToLowerCase(priceItems[i].tokenAddress)

\* a response without its repeated listings
RECURSIVE FirstListings(_, _)
FirstListings(priceItems, i) ==
    IF i > Len(priceItems) THEN <<>>
    ELSE (IF ListedBefore(priceItems, i) THEN <<>> ELSE <<priceItems[i]>>)
         \o FirstListings(priceItems, i + 1)

OncePerToken(lookups) ==
    [n \in 1..Len(lookups) |->
        [lookups[n] EXCEPT !.priceItems = FirstListings(lookups[n].priceItems, 1)]]

\* a finite price for a token that was not resolved on the chain asked
Unresolved(chain, p) == FinitePrice(p) /\ ~IsResolved(chain, p.tokenAddress)

C31_EachPairCountedOnce ==
    /\ [](pc = "done" =>
            response.body.holdingsValueUsd = ValueOfPrices(OncePerToken(priceData), 0))
    /\ [][(Pricing /\ Len(priceData') = Len(priceData) + 1
              /\ \A i \in 1..Len(priceData'[Len(priceData')].priceItems) :
                     Unresolved(priceData'[Len(priceData')].chain,
                                priceData'[Len(priceData')].priceItems[i]))
          => holdingsValueUsd' = holdingsValueUsd]_vars

\* price items for tokens that were not resolved add nothing, and a response
\* that lists no token twice counts each resolved pair once
C31_UnresolvedAddNothing ==
    /\ [](pc = "done" /\ ListedOnce =>
            response.body.holdingsValueUsd = ValueOfPairs(ResolvedPairs, 0))
    /\ [][(Pricing /\ Len(priceData') = Len(priceData) + 1
              /\ \A i \in 1..Len(priceData'[Len(priceData')].priceItems) :
                     Unresolved(priceData'[Len(priceData')].chain,
                                priceData'[Len(priceData')].priceItems[i]))
          => holdingsValueUsd' = holdingsValueUsd]_vars

(***************************************************************************)
(* C32.  The per-chain pagination loop always terminates: it stops on a    *)
(* non-OK response, a network error, a missing next cursor, a next cursor  *)
(* equal to the current one, or after at most PageLimit + 1 pages (1001 in *)
(* the code), whatever cursors the provider returns, cursors that cycle    *)
(* included.                                                               *)
(***************************************************************************)
\* a request for a page of swaps comes back, with a response or an error
PageReturns ==
    /\ pc = "fetch" /\ chainIdx <= Len(chains)
    /\ \/ chainIdx' = chainIdx + 1 /\ pageCount' = 0
       \/ chainIdx' = chainIdx /\ pageCount' = pageCount + 1

\* every request for a page comes back
FetchSpec == Spec /\ WF_<<chainIdx, pageCount>>(PageReturns)

\* a step of the loop of one chain, and the step that leaves it
PageStep ==
    /\ Fetching
    /\ <<chainIdx, cursor, pageCount, combinedPages, fetched>>'
           # <<chainIdx, cursor, pageCount, combinedPages, fetched>>
EndsChain == chainIdx' = chainIdx + 1 /\ pageCount' = 0 /\ cursor' = JsNull

ChainNumbers == UNION {DOMAIN r[2] : r \in Requests}

C32_PaginationTerminates ==
    /\ [](pageCount <= PageLimit)
    /\ [][PageStep =>
            \/ EndsChain
            \/ /\ chainIdx' = chainIdx /\ pageCount' = pageCount + 1
               /\ cursor' \notin {JsNull, cursor}]_vars
    /\ [][(PageStep /\ pageCount = PageLimit) => EndsChain]_vars
    /\ \A i \in ChainNumbers : (Fetching /\ chainIdx = i) ~> (chainIdx > i)

\* the loop of a chain has fetched PageLimit pages, following a new cursor
\* each time, and is about to ask for one more
C32_Witness ==
    /\ Fetching
    /\ pageCount = PageLimit
    /\ cursor # JsNull
    /\ Len(combinedPages) = PageLimit

(***************************************************************************)
(* C33.  A non-OK response or a network error while the swaps of one chain *)
(* are fetched stops only that chain's pagination: the pages already       *)
(* fetched for that chain are still replayed, all later chains are still   *)
(* fetched, and the run still returns its result with status 200.          *)
(***************************************************************************)
\* the request for a page fails: the response is not OK, or fetch throws
FetchFails == FetchNotOk \/ FetchNetworkError

\* the records among items that belong to chain
OfChain(items, chain) == SelectSeq(items, LAMBDA x : x.chain = chain)

\* items holds every record of wanted, as many times as wanted does or more
KeepsAll(items, wanted) ==
    \A x \in Records(wanted) : Occurrences(items, x) >= Occurrences(wanted, x)

C33_FetchErrorEndsOnlyItsChain ==
    /\ [][FetchFails =>
            /\ KeepsAll(Lookup(resultsByChain', chains[chainIdx]),
                        OfChain(fetched, chains[chainIdx]))
            /\ pc' = "fetch" /\ chainIdx' = chainIdx + 1
            /\ cursor' = JsNull /\ pageCount' = 0 /\ combinedPages' = <<>>]_vars
    /\ [](pc # "fetch" =>
            \A c \in KeySet(resultsByChain) : KeepsAll(combined, Lookup(resultsByChain, c)))
    /\ [](pc = "done" => response.status = 200)

\* the same, for a request that names no chain twice
C33_DistinctChains ==
    /\ [][(FetchFails /\ \A i, j \in 1..Len(chains) : chains[i] = chains[j] => i = j) =>
            /\ KeepsAll(Lookup(resultsByChain', chains[chainIdx]),
                        OfChain(fetched, chains[chainIdx]))
            /\ pc' = "fetch" /\ chainIdx' = chainIdx + 1
            /\ cursor' = JsNull /\ pageCount' = 0 /\ combinedPages' = <<>>]_vars
    /\ [](pc # "fetch" =>
            \A c \in KeySet(resultsByChain) : KeepsAll(combined, Lookup(resultsByChain, c)))
    /\ [](pc = "done" => response.status = 200)

(***************************************************************************)
(* The page (src/app/page.js).  Home holds the address typed, the loading  *)
(* flag, the error shown, the result and the step of the recap; each       *)
(* action below is one event handler or one continuation of handleSubmit.  *)
(***************************************************************************)
MAX_STEP == 5

\* the result of getMockResponse(), and the body of an OK answer of /api/swaps
MockResponse == "mock"
SwapsResult == "data"

\* fillDemoAddress's address
DemoAddress ==
    <<48, 120, 52, 100, 50, 54, 102, 48, 101, 55, 56, 99, 49, 53, 52, 102, 56, 102, 100, 97,
      55, 97, 99, 102, 54, 54, 52, 54, 50, 52, 54, 102, 97, 49, 51, 53, 53, 48, 55, 48, 49, 55>>

\* [a-fA-F0-9]
HexDigits == (48..57) \cup (65..70) \cup (97..102)

\* /^0x[a-fA-F0-9]{40}$/.test(s)
IsEvm(s) ==
    /\ Len(s) = 42
    /\ s[1] = 48 /\ s[2] = 120
    /\ \A i \in 3..42 : s[i] \in HexDigits

\* what may be typed: nothing, an address, the same between spaces, the
\* same cut short, the same with a letter that is no hex digit
TypedAddresses ==
    { <<>>,
      DemoAddress,
      <<32>> \o DemoAddress \o <<32>>,
      SubSeq(DemoAddress, 1, 41),
      [DemoAddress EXCEPT ![42] = 103] }

InvalidAddressMessage == "Enter a valid EVM address (0x... 40 hex)"
RequestErrorMessage == "Error requesting Moralis"
NetworkErrorMessage == "Network error. Please try again later."

\* bodies of an answer of /api/swaps that is not OK: { error: "..." } or not
NotOkBodies == { [error |-> "Invalid address"], [error |-> "null"] }
\* typeof data?.error === "string" ? data.error : "Error requesting Moralis"
ErrorOf(body) == IF body.error # "null" THEN body.error ELSE RequestErrorMessage

\* const showSteps = result && currentStep > 0
ShowSteps == result # NullResult /\ currentStep > 0

handlerVars == <<runVars, peer>>

\* onChange of the input, rendered while the steps are not shown
SetAddress ==
    /\ ~ShowSteps
    /\ \E typed \in TypedAddresses : addressInput' = typed
    /\ UNCHANGED <<useMock, loading, error, result, currentStep, listenerStep, submitPc, timers>>
    /\ UNCHANGED handlerVars

FillDemoAddress ==
    /\ ~ShowSteps
    /\ addressInput' = DemoAddress
    /\ UNCHANGED <<useMock, loading, error, result, currentStep, listenerStep, submitPc, timers>>
    /\ UNCHANGED handlerVars

\* handleSubmit up to its first await.  The form is rendered while the
\* steps are not shown, and its submit button is disabled while loading.
HandleSubmit ==
    /\ ~ShowSteps
    /\ ~loading
    /\ result' = NullResult
    /\ currentStep' = 0
    /\ IF ~IsEvm(Trim(addressInput))
       THEN /\ error' = InvalidAddressMessage
            /\ UNCHANGED <<loading, submitPc>>
       ELSE /\ error' = ""
            /\ loading' = TRUE
            /\ submitPc' = IF useMock THEN "mock" ELSE "fetch"
    /\ UNCHANGED <<useMock, addressInput, listenerStep, timers>>
    /\ UNCHANGED handlerVars

\* setResult(data); setCurrentStep(1); setTimeout(() => setLoading(false), 120)
ShowResult(data) ==
    /\ result' = data
    /\ currentStep' = 1
    /\ timers' = timers + 1
    /\ submitPc' = "idle"
    /\ UNCHANGED <<useMock, addressInput, loading, error, listenerStep>>
    /\ UNCHANGED handlerVars

\* USE_MOCK: the 3 s timer ends
MockDone ==
    /\ submitPc = "mock"
    /\ ShowResult(MockResponse)

\* fetch("/api/swaps") answers OK with a JSON body
ResponseOk ==
    /\ submitPc = "fetch"
    /\ ShowResult(SwapsResult)

\* fetch("/api/swaps") answers not OK with a JSON body: setError only
ResponseNotOk ==
    /\ submitPc = "fetch"
    /\ \E body \in NotOkBodies : error' = ErrorOf(body)
    /\ submitPc' = "idle"
    /\ UNCHANGED <<useMock, addressInput, loading, result, currentStep, listenerStep, timers>>
    /\ UNCHANGED handlerVars

\* fetch or res.json() throws: the catch block
RequestThrows ==
    /\ submitPc = "fetch"
    /\ error' = NetworkErrorMessage
    /\ loading' = FALSE
    /\ submitPc' = "idle"
    /\ UNCHANGED <<useMock, addressInput, result, currentStep, listenerStep, timers>>
    /\ UNCHANGED handlerVars

\* the 120 ms timer: setLoading(false)
LoadingTimer ==
    /\ timers > 0
    /\ loading' = FALSE
    /\ timers' = timers - 1
    /\ UNCHANGED <<useMock, addressInput, error, result, currentStep, listenerStep, submitPc>>
    /\ UNCHANGED handlerVars

\* setCurrentStep((prev) => (prev < MAX_STEP ? prev + 1 : prev))
nextStep(prev) == IF prev < MAX_STEP THEN prev + 1 ELSE prev

\* the button of a step, rendered while the steps are shown
NextStepClick ==
    /\ ShowSteps
    /\ currentStep' = nextStep(currentStep)
    /\ UNCHANGED <<useMock, addressInput, loading, error, result, listenerStep, submitPc, timers>>
    /\ UNCHANGED handlerVars

\* a progress dot, rendered while the steps are shown
DotClick ==
    /\ ShowSteps
    /\ \E step \in 1..5 : currentStep' = step
    /\ UNCHANGED <<useMock, addressInput, loading, error, result, listenerStep, submitPc, timers>>
    /\ UNCHANGED handlerVars

\* onKeyDown, a key pressed outside an input (inside one it returns at once).
\* The listener is on window whatever is rendered; it reads the currentStep
\* of the render that registered it.
KeyArrowRight ==
    /\ currentStep' = nextStep(currentStep)
    /\ UNCHANGED <<useMock, addressInput, loading, error, result, listenerStep, submitPc, timers>>
    /\ UNCHANGED handlerVars

KeyArrowLeft ==
    /\ listenerStep > 1
    /\ currentStep' = listenerStep - 1
    /\ UNCHANGED <<useMock, addressInput, loading, error, result, listenerStep, submitPc, timers>>
    /\ UNCHANGED handlerVars

KeyEnter ==
    /\ listenerStep >= 1 /\ listenerStep < 5
    /\ currentStep' = nextStep(currentStep)
    /\ UNCHANGED <<useMock, addressInput, loading, error, result, listenerStep, submitPc, timers>>
    /\ UNCHANGED handlerVars

\* the effect runs again after a render with another currentStep
RegisterListener ==
    /\ listenerStep # currentStep
    /\ listenerStep' = currentStep
    /\ UNCHANGED <<useMock, addressInput, loading, error, result, currentStep, submitPc, timers>>
    /\ UNCHANGED handlerVars

PageInit ==
    /\ useMock \in BOOLEAN
    /\ PageStart
    /\ HandlerStart
    /\ <<upstream, chains>> \in PairRequests

PageNext ==
    \/ SetAddress
    \/ FillDemoAddress
    \/ HandleSubmit
    \/ MockDone
    \/ ResponseOk
    \/ ResponseNotOk
    \/ RequestThrows
    \/ LoadingTimer
    \/ NextStepClick
    \/ DotClick
    \/ KeyArrowRight
    \/ KeyArrowLeft
    \/ KeyEnter
    \/ RegisterListener

PageSpec == PageInit /\ [][PageNext]_vars

\* Timers end, a request made gets its answer or throws, and React runs the
\* effect after a render; what the user does is up to the user.
PageLiveSpec ==
    /\ PageSpec
    /\ WF_pageVars(MockDone)
    /\ WF_pageVars(ResponseOk \/ ResponseNotOk \/ RequestThrows)
    /\ WF_pageVars(LoadingTimer)
    /\ WF_pageVars(RegisterListener)

C34_LoadingEndsUnlessNotOk == loading ~> (~loading \/ error # "")

(***************************************************************************)
(* C35.  In the recap wizard, after any sequence of submits, next-step     *)
(* clicks, progress-dot clicks and ArrowLeft / ArrowRight / Enter key      *)
(* presses, currentStep stays within 0..5, and currentStep > 0 only while  *)
(* a result is loaded (result is not null).                                *)
(***************************************************************************)
C35_StepWithinResult ==
    /\ currentStep \in 0..MAX_STEP
    /\ currentStep > 0 => result # NullResult

\* currentStep stays within 0..5, and the steps are shown only with a result
C35_StepInRange ==
    /\ currentStep \in 0..MAX_STEP
    /\ listenerStep \in 0..MAX_STEP
    /\ ShowSteps => result # NullResult
====
